---- MODULE Spec2Model ----
(***************************************************************************)
(* Movexa / Velmora on-ledger engine.                                      *)
(*                                                                         *)
(*   velmora::velmora_nft    the unique asset pool and the asset registry  *)
(*   velmora::coins_of_aura  the fungible balance ledger                   *)
(*                                                                         *)
(* Every entry function is one action: a Move transaction either commits   *)
(* all of its writes or aborts and commits none.  The status of the last   *)
(* transaction is kept in `last` (pool / registry) and `coa_last`          *)
(* (ledger), so that properties can speak about what a call returned.      *)
(***************************************************************************)
EXTENDS Integers, Sequences, FiniteSets, TLC

VARIABLES
    nft_data,        \* VelmoraNFTData stored under the admin's address
    token_data,      \* aptos_token TokenData of the admin's collection, by token name
    token_owner,     \* holder of the single copy of each token, by token name
    direct_transfer, \* accounts whose TokenStore has direct_transfer = true
    last,            \* outcome of the last velmora_nft transaction
    emitted,         \* the event the last velmora_nft transaction emitted
    returned,        \* how many times each metadata id was handed out by an allocation
    created,         \* how many token data were created for each metadata id
    coa_exists,      \* the Coins of Aura metadata object and its refs exist
    coa_store,       \* accounts that have a primary fungible store of the asset
    coa_balance,     \* balance of each primary store
    coa_supply,      \* fungible_asset::supply
    reward_events,   \* PlayerLoginReward events emitted, counted per player
    coa_last,        \* outcome of the last coins_of_aura transaction
    coa_emitted,     \* the event the last coins_of_aura transaction emitted
    admin_account,   \* AptosService.adminAccount of the backend's service object
    requests,        \* POST /aptos/coa/reward-player requests being handled
    walletState,     \* useAptosWallet: the walletState of useState
    error,           \* useAptosWallet: the error of useState
    hook_pc,         \* useAptosWallet: the await each async call of the hook is at
    petra,           \* the wallet extension: installed, connected
    since_disconnect \* whether disconnect() completed with no connect() called since its call

nftVars ==
    <<nft_data, token_data, token_owner, direct_transfer, last, emitted, returned, created>>
coaVars ==
    <<coa_exists, coa_store, coa_balance, coa_supply, reward_events, coa_last, coa_emitted>>
backendVars == <<admin_account, requests>>
hookVars == <<walletState, error, hook_pc, petra, since_disconnect>>
appVars == <<backendVars, hookVars>>
vars == <<nftVars, coaVars, appVars>>

-----------------------------------------------------------------------------
(* Bounds and program constants                                            *)

\* velmora_nft.move:32 sets 1200; the model runs the same code on a small pool.
MAX_METADATA_ID == 3
\* const MAX_METADATA_ID: u64 = 1200, the capacity the module is deployed with.
DEPLOYED_MAX_METADATA_ID == 1200
MAX_RARITY == 100
MAX_SKILL == 100

\* Range of the 8-byte value cut from sha3_256(creator ++ timestamp).
MaxRandomU64 == 3

Admin == "admin"
Accounts == {"admin", "alice"}

NoOwner == "none"
NoData ==
    [exists |-> FALSE, admin |-> NoOwner, used_metadata_ids |-> <<>>,
     available_metadata_ids |-> <<>>, available_count |-> 0]

\* Abort codes, written as the code builds them: category(reason).
OK == "ok"
\* borrow_global of a resource that does not exist
MISSING_DATA == "MISSING_DATA(VelmoraNFTData)"
MISSING_TOKEN_STORE == "MISSING_DATA(TokenStore)"
AlreadyInitialized == "already_exists(ECOLLECTION_ALREADY_EXISTS)"
OUT_OF_BOUNDS == "EINDEX_OUT_OF_BOUNDS"
ARITHMETIC_ERROR == "ARITHMETIC_ERROR"
PermissionDenied == "permission_denied(E_NOT_AUTHORIZED)"
PoolExhausted == "invalid_state(E_COLLECTION_NOT_FOUND)"
TokenNotFound == "not_found(E_COLLECTION_NOT_FOUND)"
InvalidRarity == "invalid_argument(E_INVALID_RARITY)"
InvalidSkill == "invalid_argument(E_INVALID_SKILL)"
InvalidURI == "invalid_argument(E_INVALID_URI)"
TokenDataAlreadyExists == "already_exists(ETOKEN_DATA_ALREADY_EXISTS)"
InsufficientTokenBalance == "invalid_argument(EINSUFFICIENT_BALANCE)"
OwnerCannotBurn == "permission_denied(EOWNER_CANNOT_BURN_TOKEN)"
CreatorCannotBurn == "permission_denied(ECREATOR_CANNOT_BURN_TOKEN)"
NoTokenBalance == "not_found(EINSUFFICIENT_BALANCE)"

-----------------------------------------------------------------------------
(* Pure helpers                                                            *)

\* vector<T> is 0-indexed in Move and 1-indexed here: v[i] in Move is At(v, i).
At(v, i) == v[i + 1]
InBounds(v, i) == i >= 0 /\ i < Len(v)
SetAt(v, i, x) == [v EXCEPT ![i + 1] = x]
PopBack(v) == SubSeq(v, 1, Len(v) - 1)

SwapRemoveNoSwap(v, i) == PopBack(v)

\* vector::swap_remove: swap element i with the last one, then pop.
SwapRemove(v, i) == PopBack(SetAt(v, i, At(v, Len(v) - 1)))

DigitChar(d) ==
    CASE d = 0 -> "0" [] d = 1 -> "1" [] d = 2 -> "2" [] d = 3 -> "3" [] d = 4 -> "4"
      [] d = 5 -> "5" [] d = 6 -> "6" [] d = 7 -> "7" [] d = 8 -> "8" [] d = 9 -> "9"

RECURSIVE Digits(_)
Digits(temp) == IF temp = 0 THEN "" ELSE Digits(temp \div 10) \o DigitChar(temp % 10)

u64_to_string_last_digit(num) == DigitChar(num % 10)

u64_to_string(num) == IF num = 0 THEN "0" ELSE Digits(num)

StartsWith(s, prefix) == Len(s) >= Len(prefix) /\ SubSeq(s, 1, Len(prefix)) = prefix

validate_ipfs_uri_three(uri) ==
    \/ StartsWith(uri, "ipfs://")
    \/ StartsWith(uri, "https://ipfs.io/ipfs/")
    \/ StartsWith(uri, "https://gateway.pinata.cloud/ipfs/")

validate_ipfs_uri(uri) ==
    \/ StartsWith(uri, "ipfs://")
    \/ StartsWith(uri, "https://ipfs.io/ipfs/")
    \/ StartsWith(uri, "https://gateway.pinata.cloud/ipfs/")
    \/ StartsWith(uri, "https://gateway.lighthouse.storage/ipfs/")

\* What mint_nft_with_metadata_id derives from the metadata id.
PoolTokenName(metadata_id) == "Aura Eye #" \o u64_to_string(metadata_id)
PoolTokenUri(metadata_id) ==
    "ipfs://bafybeiem7ucsjote74moefa2kmprng6cdtcey43hakgvpww3icahqtpgee/"
        \o u64_to_string(metadata_id) \o ".json"
PoolTokenRarity(metadata_id) == (metadata_id % 100) + 1
PoolTokenSkill(metadata_id) == ((metadata_id * 7) % 100) + 1

\* Keys of the property map mint_nft gives every token.
TokenPropertyKeys == {"rarity", "skill", "mint_time", "ipfs_uri"}

\* Token names the model mints: the pool's, and those of the direct mints.
DirectNames == {PoolTokenName(2)}

\* The fixed names mint_from_metadata_id and mint_from_ipfs_metadata mint under.
MetadataIdTokenName == "Velmora NFT"
IpfsMetadataTokenName == "Aura Eye #"

TokenNames ==
    {PoolTokenName(i) : i \in 1..MAX_METADATA_ID} \cup DirectNames
        \cup {MetadataIdTokenName, IpfsMetadataTokenName}

LighthouseFolder ==
    "https://gateway.lighthouse.storage/ipfs/bafybeiem7ucsjote74moefa2kmprng6cdtcey43hakgvpww3icahqtpgee/"

\* uri_with_id of mint_from_metadata_id: spelled out for ids 1 and 2.
MetadataIdUri(metadata_id) ==
    IF metadata_id = 1 THEN LighthouseFolder \o "1.json"
    ELSE IF metadata_id = 2 THEN LighthouseFolder \o "2.json"
    ELSE LighthouseFolder \o "nft.json"

\* uri_with_id of mint_from_ipfs_metadata: spelled out for ids 1, 2 and 3.
IpfsMetadataUri(metadata_id) ==
    IF metadata_id = 1 THEN LighthouseFolder \o "1.json"
    ELSE IF metadata_id = 2 THEN LighthouseFolder \o "2.json"
    ELSE IF metadata_id = 3 THEN LighthouseFolder \o "3.json"
    ELSE LighthouseFolder \o "nft.json"

\* rarity and skill mint_from_ipfs_metadata gives the token.
IpfsMetadataRarity(metadata_id) == IF metadata_id = 1 THEN 12 ELSE 50
IpfsMetadataSkill(metadata_id) == IF metadata_id = 1 THEN 7 ELSE 50
NoToken == [exists |-> FALSE, rarity |-> 0, skill |-> 0]

-----------------------------------------------------------------------------
(* Unique asset pool: velmora_nft::initialize and the two allocations      *)

RECURSIVE FillLoopOneShort(_, _, _, _)
FillLoopOneShort(i, max, available_ids, used_ids) ==
    IF i < max
    THEN FillLoopOneShort(i + 1, max, Append(available_ids, i), Append(used_ids, FALSE))
    ELSE [available_ids |-> available_ids, used_ids |-> used_ids]

\* The while loop of initialize, from i on, for a capacity of max:
\* while (i <= max) { push_back(available_ids, i); push_back(used_ids, false); i = i + 1 }
RECURSIVE FillLoop(_, _, _, _)
FillLoop(i, max, available_ids, used_ids) ==
    IF i <= max
    THEN FillLoop(i + 1, max, Append(available_ids, i), Append(used_ids, FALSE))
    ELSE [available_ids |-> available_ids, used_ids |-> used_ids]

\* The resource initialize stores: the vectors its loop builds, i = 1 ..
\* MAX_METADATA_ID, and the counter.
InitialPool(admin_addr) ==
    [exists |-> TRUE,
     admin |-> admin_addr,
     used_metadata_ids |-> FillLoop(1, MAX_METADATA_ID, <<>>, <<>>).used_ids,
     available_metadata_ids |-> FillLoop(1, MAX_METADATA_ID, <<>>, <<>>).available_ids,
     available_count |-> MAX_METADATA_ID]

\* The resource a transaction signed by addr finds under its own address:
\* the model holds the pool of Admin; nobody else ran initialize.
ResourceAt(addr) == IF addr = Admin THEN nft_data ELSE NoData

\* let check_id = ((random_number + attempts - 1) % MAX_METADATA_ID) + 1
CheckId(random_number, attempts) == ((random_number + attempts - 1) % MAX_METADATA_ID) + 1

ScanFromLowest(used, random_number, attempts) ==
    IF \A i \in 1..MAX_METADATA_ID : used[i] THEN 0
    ELSE CHOOSE i \in 1..MAX_METADATA_ID :
            ~used[i] /\ \A j \in 1..(i - 1) : used[j]

RECURSIVE ScanFromNoWrap(_, _, _)
ScanFromNoWrap(used, random_number, attempts) ==
    IF attempts >= MAX_METADATA_ID \/ random_number + attempts > MAX_METADATA_ID THEN 0
    ELSE IF ~At(used, random_number + attempts - 1) THEN random_number + attempts
    ELSE ScanFromNoWrap(used, random_number, attempts + 1)

\* The circular scan of mint_random_nft_secure: 0 when all attempts fail.
RECURSIVE ScanFrom(_, _, _)
ScanFrom(used, random_number, attempts) ==
    IF attempts >= MAX_METADATA_ID THEN 0
    ELSE LET check_id == CheckId(random_number, attempts)
         IN  IF ~At(used, check_id - 1) THEN check_id
             ELSE ScanFrom(used, random_number, attempts + 1)

RECURSIVE ScanChecksInclusive(_, _, _)
ScanChecksInclusive(used, random_number, attempts) ==
    IF attempts > MAX_METADATA_ID THEN 0
    ELSE IF ~At(used, CheckId(random_number, attempts) - 1) THEN 1
    ELSE 1 + ScanChecksInclusive(used, random_number, attempts + 1)

\* How many bitmap entries the scan loop reads from `attempts` on: one per
\* iteration, until the loop breaks or its condition fails.
RECURSIVE ScanChecks(_, _, _)
ScanChecks(used, random_number, attempts) ==
    IF attempts >= MAX_METADATA_ID THEN 0
    ELSE IF ~At(used, CheckId(random_number, attempts) - 1) THEN 1
    ELSE 1 + ScanChecks(used, random_number, attempts + 1)

\* How many iterations the removal loop makes from index i on.
RECURSIVE RemovalSteps(_, _, _)
RemovalSteps(v, metadata_id, i) ==
    IF i >= Len(v) THEN 0
    ELSE IF At(v, i) = metadata_id THEN 1
    ELSE 1 + RemovalSteps(v, metadata_id, i + 1)

\* The removal loop of mint_random_nft_secure: index of the first element equal
\* to metadata_id, or Len(v) when the loop runs off the end.
RECURSIVE FindIndex(_, _, _)
FindIndex(v, metadata_id, i) ==
    IF i >= Len(v) THEN Len(v)
    ELSE IF At(v, i) = metadata_id THEN i
    ELSE FindIndex(v, metadata_id, i + 1)

RemoveId(v, metadata_id) ==
    LET i == FindIndex(v, metadata_id, 0)
    IN  IF i < Len(v) THEN SwapRemove(v, i) ELSE v

MarkUsedNot(used, metadata_id) == used

\* *vector::borrow_mut(&mut used_metadata_ids, metadata_id - 1) = true
MarkUsed(used, metadata_id) == SetAt(used, metadata_id - 1, TRUE)

DecrementTwice(count) == IF count >= 2 THEN count - 2 ELSE 0

\* available_count = available_count - 1
Decrement(count) == count - 1

ExhaustedNever(d) == FALSE

\* assert!(nft_data.available_count > 0, invalid_state(E_COLLECTION_NOT_FOUND))
Exhausted(d) == ~(d.available_count > 0)

\* Lines 439-475 of mint_random_nft_secure on the caller's resource d: the
\* status reached before the registry mint, the chosen id and the pool written.
SecureAlloc(creator_addr, d, random_number) ==
    IF ~d.exists THEN [status |-> MISSING_DATA, id |-> 0, data |-> d]
    ELSE IF creator_addr # d.admin THEN [status |-> PermissionDenied, id |-> 0, data |-> d]
    ELSE IF Exhausted(d) THEN [status |-> PoolExhausted, id |-> 0, data |-> d]
    ELSE LET metadata_id == ScanFrom(d.used_metadata_ids, random_number, 0)
         IN  IF ~(metadata_id > 0)
             THEN [status |-> PoolExhausted, id |-> 0, data |-> d]
             ELSE IF d.available_count = 0
             THEN [status |-> ARITHMETIC_ERROR, id |-> 0, data |-> d]
             ELSE [status |-> OK, id |-> metadata_id,
                   data |-> [d EXCEPT
                      !.used_metadata_ids = MarkUsed(@, metadata_id),
                      !.available_metadata_ids = RemoveId(@, metadata_id),
                      !.available_count = Decrement(@)]]

FallbackIndexUnreduced(random_u64, count) == random_u64

\* let random_index = random_u64 % nft_data.available_count
FallbackIndex(random_u64, count) == random_u64 % count

MoveLastNot(avail, random_index, last_index) == avail

\* if (random_index != last_index) { available[random_index] = available[last_index] }
MoveLast(avail, random_index, last_index) ==
    IF random_index # last_index
    THEN SetAt(avail, random_index, At(avail, last_index))
    ELSE avail

\* Lines 486-523 of mint_random_nft.
FallbackAlloc(creator_addr, d, random_u64) ==
    IF ~d.exists THEN [status |-> MISSING_DATA, id |-> 0, data |-> d]
    ELSE IF creator_addr # d.admin THEN [status |-> PermissionDenied, id |-> 0, data |-> d]
    ELSE IF Exhausted(d) THEN [status |-> PoolExhausted, id |-> 0, data |-> d]
    ELSE IF d.available_count = 0 THEN [status |-> ARITHMETIC_ERROR, id |-> 0, data |-> d]
    ELSE LET random_index == FallbackIndex(random_u64, d.available_count)
             avail == d.available_metadata_ids
         IN  IF ~InBounds(avail, random_index)
             THEN [status |-> OUT_OF_BOUNDS, id |-> 0, data |-> d]
             ELSE
             LET metadata_id == At(avail, random_index)
                 last_index == d.available_count - 1
             IN  IF random_index # last_index /\ ~InBounds(avail, last_index)
                 THEN [status |-> OUT_OF_BOUNDS, id |-> 0, data |-> d]
                 ELSE IF ~InBounds(d.used_metadata_ids, metadata_id - 1)
                 THEN [status |-> OUT_OF_BOUNDS, id |-> 0, data |-> d]
                 ELSE
                 LET moved == MoveLast(avail, random_index, last_index)
                 IN  [status |-> OK, id |-> metadata_id,
                      data |-> [d EXCEPT
                         !.available_metadata_ids = PopBack(moved),
                         !.available_count = Decrement(@),
                         !.used_metadata_ids = MarkUsed(@, metadata_id)]]

\* get_available_count(creator)
get_available_count(creator) ==
    IF ~ResourceAt(creator).exists THEN 0 ELSE ResourceAt(creator).available_count

is_metadata_id_used_or_free(creator, metadata_id) ==
    IF ~ResourceAt(creator).exists \/ metadata_id = 0 \/ metadata_id > MAX_METADATA_ID
    THEN FALSE
    ELSE At(ResourceAt(creator).used_metadata_ids, metadata_id - 1)

\* is_metadata_id_used(creator, metadata_id)
is_metadata_id_used(creator, metadata_id) ==
    IF ~ResourceAt(creator).exists \/ metadata_id = 0 \/ metadata_id > MAX_METADATA_ID
    THEN TRUE
    ELSE At(ResourceAt(creator).used_metadata_ids, metadata_id - 1)

-----------------------------------------------------------------------------
(* Asset registry: mint_nft, transfer_nft, burn_nft, admin_burn_nft        *)

MintNftStatusNoSkill(creator_addr, to, name, uri, rarity, skill) ==
    IF ~(rarity <= MAX_RARITY) THEN InvalidRarity
    ELSE IF ~validate_ipfs_uri(uri) THEN InvalidURI
    ELSE IF ~ResourceAt(creator_addr).exists THEN MISSING_DATA
    ELSE IF creator_addr # ResourceAt(creator_addr).admin THEN PermissionDenied
    ELSE IF token_data[name].exists THEN TokenDataAlreadyExists
    ELSE IF to \notin direct_transfer \cup {creator_addr} THEN MISSING_TOKEN_STORE
    ELSE OK

\* Where mint_nft aborts, in the order of its checks; OK when it runs through.
\* token::create_tokendata refuses a name the collection already holds, and
\* token::transfer reads the recipient's TokenStore, which the creator has
\* (mint_token, opt_in_direct_transfer) and others have once they opted in.
MintNftStatus(creator_addr, to, name, uri, rarity, skill) ==
    IF ~(rarity <= MAX_RARITY) THEN InvalidRarity
    ELSE IF ~(skill <= MAX_SKILL) THEN InvalidSkill
    ELSE IF ~validate_ipfs_uri(uri) THEN InvalidURI
    ELSE IF ~ResourceAt(creator_addr).exists THEN MISSING_DATA
    ELSE IF creator_addr # ResourceAt(creator_addr).admin THEN PermissionDenied
    ELSE IF token_data[name].exists THEN TokenDataAlreadyExists
    ELSE IF to \notin direct_transfer \cup {creator_addr} THEN MISSING_TOKEN_STORE
    ELSE OK

TransferStatusAnySender(from_addr, to, name) ==
    IF to \notin direct_transfer THEN MISSING_TOKEN_STORE ELSE OK

\* token::transfer(from, token_id, to, 1): the recipient's TokenStore is read
\* first, then the sender's balance is checked by the withdrawal.
TransferStatus(from_addr, to, name) ==
    IF to \notin direct_transfer THEN MISSING_TOKEN_STORE
    ELSE IF token_owner[name] # from_addr THEN InsufficientTokenBalance
    ELSE OK

\* get_nft_attributes(creator, collection, token_name, 0): the property map is
\* read with token::get_property_map(creator, token_id), which first asserts
\* that the address it is given, here the creator, holds the token.
get_nft_attributes(creator, token_name) ==
    IF ~(token_owner[token_name] = creator)
    THEN [status |-> NoTokenBalance, rarity |-> 0, skill |-> 0]
    ELSE [status |-> OK, rarity |-> token_data[token_name].rarity,
          skill |-> token_data[token_name].skill]

\* burn_nft up to and including token::burn, which wants the token's property
\* map to hold TOKEN_BURNABLE_BY_OWNER.
BurnStatus(owner_addr, name) ==
    IF ~(token_owner[name] = owner_addr) THEN PermissionDenied
    ELSE IF get_nft_attributes(Admin, name).status # OK THEN NoTokenBalance
    ELSE IF "TOKEN_BURNABLE_BY_OWNER" \notin TokenPropertyKeys THEN OwnerCannotBurn
    ELSE OK

\* admin_burn_nft up to and including token::burn_by_creator.
AdminBurnStatus(admin_addr, owner, name) ==
    IF ~ResourceAt(admin_addr).exists THEN MISSING_DATA
    ELSE IF admin_addr # ResourceAt(admin_addr).admin THEN PermissionDenied
    ELSE IF ~(token_owner[name] = owner) THEN TokenNotFound
    ELSE IF get_nft_attributes(admin_addr, name).status # OK THEN NoTokenBalance
    ELSE IF "TOKEN_BURNABLE_BY_CREATOR" \notin TokenPropertyKeys THEN CreatorCannotBurn
    ELSE OK

CommitAlways(status, new, old) == new

\* A transaction that aborts writes nothing.
Commit(status, new, old) == IF status = OK THEN new ELSE old

InitializeStatusAlways(admin_addr) == OK

\* create_collection and move_to abort when the signer already ran initialize.
InitializeStatus(admin_addr) ==
    IF ResourceAt(admin_addr).exists THEN AlreadyInitialized ELSE OK

\* The arguments of a direct mint_nft call; NoArgs for every other call.
NoArgs == [to |-> NoOwner, name |-> "", uri |-> "", rarity |-> 0, skill |-> 0]

Outcome(op, caller, status, id) ==
    [op |-> op, caller |-> caller, status |-> status,
     id |-> IF status = OK THEN id ELSE 0, args |-> NoArgs]

\* MintEvent, TransferEvent and BurnEvent as one record shape (from: the
\* creator of a mint, the sender of a transfer, the owner of a burn); the
\* timestamp is left out.
NoEvent == [type |-> "none", token_id |-> "", from |-> NoOwner, to |-> NoOwner,
            rarity |-> 0, skill |-> 0]
MintEvent(token_id, creator, owner, rarity, skill) ==
    [type |-> "MintEvent", token_id |-> token_id, from |-> creator, to |-> owner,
     rarity |-> rarity, skill |-> skill]
TransferEvent(token_id, from, to) ==
    [type |-> "TransferEvent", token_id |-> token_id, from |-> from, to |-> to,
     rarity |-> 0, skill |-> 0]
BurnEvent(token_id, owner, rarity, skill) ==
    [type |-> "BurnEvent", token_id |-> token_id, from |-> owner, to |-> NoOwner,
     rarity |-> rarity, skill |-> skill]

-----------------------------------------------------------------------------
(* Balance ledger: coins_of_aura                                           *)
(*                                                                         *)
(* Amounts are counted in whole CoA: 1 here is 10^DECIMALS base units.     *)

DECIMALS == 8

\* const INITIAL_PLAYER_AMOUNT: u64 = 65000000000, digit by digit.
INITIAL_PLAYER_AMOUNT_DIGITS == <<6, 5, 0, 0, 0, 0, 0, 0, 0, 0, 0>>

RECURSIVE ValueOf(_)
ValueOf(digits) ==
    IF Len(digits) = 0 THEN 0
    ELSE 10 * ValueOf(SubSeq(digits, 1, Len(digits) - 1)) + digits[Len(digits)]

\* The whole-CoA part of a base-unit amount, and whether nothing is left over.
WholeCoa(digits) == ValueOf(SubSeq(digits, 1, Len(digits) - DECIMALS))
IsWholeCoa(digits) ==
    /\ Len(digits) > DECIMALS
    /\ \A k \in (Len(digits) - DECIMALS + 1)..Len(digits) : digits[k] = 0

INITIAL_PLAYER_AMOUNT == WholeCoa(INITIAL_PLAYER_AMOUNT_DIGITS)

CoaAccounts == Accounts

\* Amounts the calls are made with (positive: whether the framework takes a
\* zero amount depends on its version).
Amounts == {100, 650}

\* Mints and rewards stop once the supply would pass MaxSupply, and at most
\* MaxRewards rewards are paid in all, to keep the model finite.
MaxSupply == 750
MaxRewards == 2

\* The largest balance a store can hold.  The code's u64 ends at 2^64 - 1;
\* the model runs the same checked additions on a narrower integer, chosen so
\* that the amounts above can pass it.
MAX_U64 == 700

NotOwnerDenied == "permission_denied(E_NOT_OWNER)"
ObjectNotFound == "not_found(EOBJECT_DOES_NOT_EXIST)"
ObjectExists == "already_exists(EOBJECT_EXISTS)"
InsufficientBalance == "invalid_argument(EINSUFFICIENT_BALANCE)"

\* amount is the call's amount argument, 0 for the calls that have none.
CoaOutcome(op, caller, status, account, amount) ==
    [op |-> op, caller |-> caller, status |-> status, account |-> account,
     amount |-> amount]

RECURSIVE SumOver(_, _)
SumOver(f, S) ==
    IF S = {} THEN 0 ELSE LET a == CHOOSE x \in S : TRUE IN f[a] + SumOver(f, S \ {a})

\* MintEvent, BurnEvent and PlayerLoginReward of coins_of_aura as one record
\* shape; the timestamp is left out.
CoaNoEvent == [type |-> "none", account |-> NoOwner, amount |-> 0]
CoaMintEvent(recipient, amount) ==
    [type |-> "MintEvent", account |-> recipient, amount |-> amount]
CoaBurnEvent(account, amount) ==
    [type |-> "BurnEvent", account |-> account, amount |-> amount]
PlayerLoginReward(player, amount) ==
    [type |-> "PlayerLoginReward", account |-> player, amount |-> amount]

\* The stores, their balances and the supply as one value l, so that a call
\* can be applied to what another call left.
Ledger == [store |-> coa_store, bal |-> coa_balance, supply |-> coa_supply]

\* primary_fungible_store::balance is 0 without a store.
BalanceOf(l, account) == IF account \in l.store THEN l.bal[account] ELSE 0

\* coins_of_aura::balance
balance(account) == BalanceOf(Ledger, account)

AuthorizedStatusAnyone(admin_addr) == IF ~coa_exists THEN ObjectNotFound ELSE OK

\* get_metadata followed by authorized_borrow_refs.
AuthorizedStatus(admin_addr) ==
    IF ~coa_exists THEN ObjectNotFound
    ELSE IF admin_addr # Admin THEN NotOwnerDenied
    ELSE OK

\* primary_fungible_store::primary_store(owner, asset): address_to_object
\* aborts when the owner has no primary store yet.
PrimaryStoreStatus(l, owner) == IF owner \in l.store THEN OK ELSE ObjectNotFound

DepositStatusWrapping(l, to, amount) == OK

\* store.balance = store.balance + amount: a u64 addition aborts on overflow.
DepositStatus(l, to, amount) ==
    IF BalanceOf(l, to) + amount > MAX_U64 THEN ARITHMETIC_ERROR ELSE OK

RewardDueAlways(current_balance) == TRUE

\* if (current_balance == 0)
RewardDue(current_balance) == current_balance = 0

CoaInitialize ==
    LET st == IF coa_exists THEN ObjectExists ELSE OK
    IN  /\ coa_exists' = Commit(st, TRUE, coa_exists)
        /\ coa_last' = CoaOutcome("initialize", Admin, st, NoOwner, 0)
        /\ coa_emitted' = CoaNoEvent
        /\ UNCHANGED <<coa_store, coa_balance, coa_supply, reward_events>>
        /\ UNCHANGED <<nftVars, appVars>>

CreditedTwice(l, to, amount) ==
    [store |-> l.store \cup {to},
     bal |-> [l.bal EXCEPT ![to] = @ + amount + amount],
     supply |-> l.supply + amount + amount]

CreditedNoSupply(l, to, amount) ==
    [store |-> l.store \cup {to},
     bal |-> [l.bal EXCEPT ![to] = @ + amount],
     supply |-> l.supply]

\* ensure_primary_store_exists, fungible_asset::mint, deposit_with_ref
Credited(l, to, amount) ==
    [store |-> l.store \cup {to},
     bal |-> [l.bal EXCEPT ![to] = @ + amount],
     supply |-> l.supply + amount]

WithdrawnNothing(l, from, amount) == [l EXCEPT !.store = @ \cup {from}]

\* fungible_asset::withdraw from the store of from
Withdrawn(l, from, amount) ==
    [store |-> l.store \cup {from},
     bal |-> [l.bal EXCEPT ![from] = @ - amount],
     supply |-> l.supply]

DepositedNothing(l, to, amount) == [l EXCEPT !.store = @ \cup {to}]

\* fungible_asset::deposit into the store of to
Deposited(l, to, amount) ==
    [store |-> l.store \cup {to},
     bal |-> [l.bal EXCEPT ![to] = @ + amount],
     supply |-> l.supply]

\* withdraw_with_ref, fungible_asset::burn
BurnedFrom(l, from, amount) ==
    [Withdrawn(l, from, amount) EXCEPT !.supply = @ - amount]

\* mint(admin, to, amount) on the ledger l: the status it ends with and the
\* ledger it leaves.
MintStatus(l, admin, to, amount) ==
    IF AuthorizedStatus(admin) # OK THEN AuthorizedStatus(admin)
    ELSE DepositStatus(l, to, amount)

mint(l, admin, to, amount) ==
    LET st == MintStatus(l, admin, to, amount)
    IN  [status |-> st, ledger |-> Commit(st, Credited(l, to, amount), l)]

CoaMint(admin, to, amount) ==
    LET r == mint(Ledger, admin, to, amount)
    IN  /\ coa_supply + amount <= MaxSupply
        /\ coa_store' = r.ledger.store
        /\ coa_balance' = r.ledger.bal
        /\ coa_supply' = r.ledger.supply
        /\ coa_last' = CoaOutcome("mint", admin, r.status, to, amount)
        /\ coa_emitted' = Commit(r.status, CoaMintEvent(to, amount), CoaNoEvent)
        /\ UNCHANGED <<coa_exists, reward_events>>
        /\ UNCHANGED <<nftVars, appVars>>

RewardStatus(admin, player) ==
    IF AuthorizedStatus(admin) # OK THEN AuthorizedStatus(admin)
    ELSE PrimaryStoreStatus(Ledger, player)

\* The ledger writes of one reward_new_player transaction.
RewardTx(admin, player) ==
    LET checked == RewardStatus(admin, player)
        due == checked = OK /\ RewardDue(coa_balance[player])
        st == IF due THEN DepositStatus(Ledger, player, INITIAL_PLAYER_AMOUNT) ELSE checked
        paid == due /\ st = OK
        c == Credited(Ledger, player, INITIAL_PLAYER_AMOUNT)
    IN  /\ due => /\ coa_supply + INITIAL_PLAYER_AMOUNT <= MaxSupply
                  /\ SumOver(reward_events, CoaAccounts) < MaxRewards
        /\ coa_store' = IF paid THEN c.store ELSE coa_store
        /\ coa_balance' = IF paid THEN c.bal ELSE coa_balance
        /\ coa_supply' = IF paid THEN c.supply ELSE coa_supply
        /\ reward_events' = IF paid THEN [reward_events EXCEPT ![player] = @ + 1]
                            ELSE reward_events
        /\ coa_last' = CoaOutcome("reward_new_player", admin, st, player, 0)
        /\ coa_emitted' = IF paid THEN PlayerLoginReward(player, INITIAL_PLAYER_AMOUNT) ELSE CoaNoEvent
        /\ UNCHANGED coa_exists

CoaRewardNewPlayer(admin, player) ==
    /\ RewardTx(admin, player)
    /\ UNCHANGED <<nftVars, appVars>>

\* burn(admin, amount) on the ledger l: primary_store(admin), then
\* withdraw_with_ref, then fungible_asset::burn.
CoaBurnStatus(l, admin, amount) ==
    IF AuthorizedStatus(admin) # OK THEN AuthorizedStatus(admin)
    ELSE IF PrimaryStoreStatus(l, admin) # OK THEN PrimaryStoreStatus(l, admin)
    ELSE IF l.bal[admin] < amount THEN InsufficientBalance
    ELSE OK

burn(l, admin, amount) ==
    LET st == CoaBurnStatus(l, admin, amount)
    IN  [status |-> st, ledger |-> Commit(st, BurnedFrom(l, admin, amount), l)]

CoaBurn(admin, amount) ==
    LET r == burn(Ledger, admin, amount)
    IN  /\ coa_store' = r.ledger.store
        /\ coa_balance' = r.ledger.bal
        /\ coa_supply' = r.ledger.supply
        /\ coa_last' = CoaOutcome("burn", admin, r.status, admin, amount)
        /\ coa_emitted' = Commit(r.status, CoaBurnEvent(admin, amount), CoaNoEvent)
        /\ UNCHANGED <<coa_exists, reward_events>>
        /\ UNCHANGED <<nftVars, appVars>>

\* transfer(from, to, amount) on the ledger l.  primary_fungible_store::transfer
\* ensures both stores, withdraws the amount from the sender's and deposits it
\* into the recipient's.
CoaTransferStatus(l, from, to, amount) ==
    IF ~coa_exists THEN ObjectNotFound
    ELSE IF BalanceOf(l, from) < amount THEN InsufficientBalance
    ELSE DepositStatus(Withdrawn(l, from, amount), to, amount)

transferPull(l, from, to, amount) ==
    LET st == CoaTransferStatus(l, to, from, amount)
    IN  [status |-> st,
         ledger |-> Commit(st, Deposited(Withdrawn(l, to, amount), from, amount), l)]

transfer(l, from, to, amount) ==
    LET st == CoaTransferStatus(l, from, to, amount)
    IN  [status |-> st,
         ledger |-> Commit(st, Deposited(Withdrawn(l, from, amount), to, amount), l)]

CoaTransfer(from, to, amount) ==
    LET r == transfer(Ledger, from, to, amount)
    IN  /\ coa_store' = r.ledger.store
        /\ coa_balance' = r.ledger.bal
        /\ coa_supply' = r.ledger.supply
        /\ coa_last' = CoaOutcome("transfer", from, r.status, to, amount)
        /\ coa_emitted' = CoaNoEvent
        /\ UNCHANGED <<coa_exists, reward_events>>
        /\ UNCHANGED <<nftVars, appVars>>

-----------------------------------------------------------------------------
(* The backend: AptosService and the route POST /aptos/coa/reward-player   *)
(*                                                                         *)
(* Each request is handled by an async function whose awaits are separate  *)
(* steps, so requests interleave between them.  getCoABalance divides the  *)
(* base units by 10^8, which is the whole-CoA count the ledger here keeps. *)

\* this.adminAccount before the constructor has run.
Unconstructed == "unconstructed"

\* Requests handled at the same time.
ReqIds == {1, 2}

\* playerAddress of the request body; NoOwner stands for a body without it.
PlayerAddresses == {"alice", NoOwner}

NoResponse == [status |-> 0, message |-> ""]
AddressRequired ==
    [status |-> 400, message |-> "playerAddress is required in the request body"]
AlreadyReceived == [status |-> 400, message |-> "Player has already received CoA tokens"]
Rewarded == [status |-> 200, message |-> "Player rewarded with 650 CoA tokens successfully"]
RewardFailed == [status |-> 500, message |-> "Failed to reward player with CoA tokens."]

\* held is the ledger balance of the player when isEligibleForReward read (or
\* failed to read) it, credited what the request's transaction added to it.
IdleRequest ==
    [pc |-> "idle", player |-> NoOwner, held |-> 0, credited |-> 0, response |-> NoResponse]

\* constructor(env): the admin account is built from env.APTOS_PRIVATE_KEY and
\* is null without it.  index.ts constructs the service without an env.
AptosServiceConstructor(has_private_key) ==
    /\ admin_account = Unconstructed
    /\ admin_account' = IF has_private_key THEN Admin ELSE NoOwner
    /\ UNCHANGED <<requests, nftVars, coaVars, hookVars>>

\* The handler up to its first await on the service.
RouteStart(r, playerAddress) ==
    /\ admin_account # Unconstructed
    /\ requests[r].pc \in {"idle", "done"}
    /\ requests' = [requests EXCEPT ![r] =
                       IF playerAddress = NoOwner
                       THEN [IdleRequest EXCEPT !.pc = "done", !.response = AddressRequired]
                       ELSE [IdleRequest EXCEPT !.pc = "isEligibleForReward",
                                                !.player = playerAddress]]
    /\ UNCHANGED <<admin_account, nftVars, coaVars, hookVars>>

\* balance === 0, and true when getCoABalance threw.
isEligibleForReward(read_fails, current_balance) ==
    IF read_fails THEN TRUE ELSE current_balance = 0

\* The view call of getCoABalance fails on the network, or aborts in
\* get_metadata while the ledger is not initialized.
RouteEligibility(r, network_error) ==
    LET q == requests[r]
        isEligible == isEligibleForReward(network_error \/ ~coa_exists, balance(q.player))
    IN  /\ q.pc = "isEligibleForReward"
        /\ requests' = [requests EXCEPT ![r] =
                           IF ~isEligible
                           THEN [q EXCEPT !.pc = "done", !.held = balance(q.player),
                                          !.response = AlreadyReceived]
                           ELSE [q EXCEPT !.pc = "rewardNewPlayer",
                                          !.held = balance(q.player)]]
        /\ UNCHANGED <<admin_account, nftVars, coaVars, hookVars>>

\* rewardNewPlayer throws without an admin account and when building,
\* submitting or waiting fails; waitForTransaction throws for a transaction
\* that aborted and returns the hash of one that was executed.
RouteReward(r, network_error) ==
    LET q == requests[r]
    IN  /\ q.pc = "rewardNewPlayer"
        /\ IF admin_account = NoOwner \/ network_error
           THEN /\ requests' = [requests EXCEPT ![r] =
                                   [q EXCEPT !.pc = "done", !.response = RewardFailed]]
                /\ UNCHANGED coaVars
           ELSE /\ RewardTx(admin_account, q.player)
                /\ requests' = [requests EXCEPT ![r] =
                                   [q EXCEPT !.pc = "done",
                                             !.response = IF coa_last'.status = OK
                                                          THEN Rewarded ELSE RewardFailed,
                                             !.credited = coa_balance'[q.player]
                                                          - coa_balance[q.player]]]
        /\ UNCHANGED <<admin_account, nftVars, hookVars>>

-----------------------------------------------------------------------------
(* The game client: the useAptosWallet hook                                *)
(*                                                                         *)
(* Every async function of the hook is a chain of steps, one per await;    *)
(* hook_pc holds the await each of them is at, "idle" when it is not       *)
(* running.  One call of each function is in flight at a time.  getBalance *)
(* and getCoABalance catch their errors and return '0' and 0, so the two   *)
(* awaits on them are one step that cannot reject.                         *)

HookOps == {"checkConnection", "connect", "disconnect", "refreshBalance", "rewardNewPlayer"}

\* address: null
NoAddress == "null"
\* account.address of the wallet's account.
WalletAddress == "alice"
\* error: null
NoError == "null"
PetraMissing == "Petra wallet is not installed. Please install it from the Chrome Web Store."
ConnectFailed == "Failed to connect to Petra wallet"
DisconnectFailed == "Failed to disconnect wallet"

\* What getBalance (APT, four decimals) and getCoABalance can return.
AptBalances == {"0", "1.0000"}
CoaBalances == {0, INITIAL_PLAYER_AMOUNT}

\* What wallet.connect() settles with: an account record, a falsy value, or
\* a rejection.
ConnectResponses == {"account", "undefined", "rejected"}

\* The state of useState's initializer, which disconnect() sets again.
DisconnectedState ==
    [address |-> NoAddress, isConnected |-> FALSE, isConnecting |-> FALSE,
     balance |-> "0", coaBalance |-> 0, network |-> "mainnet"]

ConnectedState(aptBalance, coaBalance) ==
    [address |-> WalletAddress, isConnected |-> TRUE, isConnecting |-> FALSE,
     balance |-> aptBalance, coaBalance |-> coaBalance, network |-> "mainnet"]

Awaiting(op, pc) == [hook_pc EXCEPT ![op] = pc]

\* window.petra appears.
InstallPetra ==
    /\ ~petra.installed
    /\ petra' = [petra EXCEPT !.installed = TRUE]
    /\ UNCHANGED <<walletState, error, hook_pc, since_disconnect>>
    /\ UNCHANGED <<nftVars, coaVars, backendVars>>

\* The mount effect: checkConnection() up to wallet.isConnected().
CheckConnectionCall ==
    /\ hook_pc["checkConnection"] = "idle"
    /\ hook_pc' = Awaiting("checkConnection", IF petra.installed THEN "isConnected" ELSE "returned")
    /\ UNCHANGED <<walletState, error, petra, since_disconnect>>
    /\ UNCHANGED <<nftVars, coaVars, backendVars>>

CheckConnectionIsConnected(rejects) ==
    /\ hook_pc["checkConnection"] = "isConnected"
    /\ hook_pc' = Awaiting("checkConnection",
                     IF ~rejects /\ petra.connected THEN "account" ELSE "returned")
    /\ UNCHANGED <<walletState, error, petra, since_disconnect>>
    /\ UNCHANGED <<nftVars, coaVars, backendVars>>

CheckConnectionAccount(rejects) ==
    /\ hook_pc["checkConnection"] = "account"
    /\ hook_pc' = Awaiting("checkConnection", IF rejects THEN "returned" ELSE "balances")
    /\ UNCHANGED <<walletState, error, petra, since_disconnect>>
    /\ UNCHANGED <<nftVars, coaVars, backendVars>>

CheckConnectionBalances(aptBalance, coaBalance) ==
    /\ hook_pc["checkConnection"] = "balances"
    /\ walletState' = ConnectedState(aptBalance, coaBalance)
    /\ hook_pc' = Awaiting("checkConnection", "returned")
    /\ UNCHANGED <<error, petra, since_disconnect>>
    /\ UNCHANGED <<nftVars, coaVars, backendVars>>

\* connect() up to wallet.connect(); without the extension it sets the error
\* and returns.
ConnectCall ==
    /\ hook_pc["connect"] = "idle"
    /\ since_disconnect' = "connect called"
    /\ IF ~petra.installed
       THEN /\ error' = PetraMissing
            /\ UNCHANGED <<walletState, hook_pc>>
       ELSE /\ walletState' = [walletState EXCEPT !.isConnecting = TRUE]
            /\ error' = NoError
            /\ hook_pc' = Awaiting("connect", "wallet.connect")
    /\ UNCHANGED petra
    /\ UNCHANGED <<nftVars, coaVars, backendVars>>

\* The catch block of connect().
ConnectCaught ==
    /\ error' = ConnectFailed
    /\ walletState' = [walletState EXCEPT !.isConnecting = FALSE]
    /\ hook_pc' = Awaiting("connect", "idle")

\* wallet.connect() settled with response; a falsy response skips the if
\* block and connect() returns.
ConnectResolves(response) ==
    /\ hook_pc["connect"] = "wallet.connect"
    /\ CASE response = "rejected" -> ConnectCaught /\ UNCHANGED petra
         [] response = "undefined" ->
                /\ hook_pc' = Awaiting("connect", "idle")
                /\ UNCHANGED <<walletState, error, petra>>
         [] OTHER ->
                /\ petra' = [petra EXCEPT !.connected = TRUE]
                /\ hook_pc' = Awaiting("connect", "account")
                /\ UNCHANGED <<walletState, error>>
    /\ UNCHANGED since_disconnect
    /\ UNCHANGED <<nftVars, coaVars, backendVars>>

ConnectAccount(rejects) ==
    /\ hook_pc["connect"] = "account"
    /\ IF rejects THEN ConnectCaught
       ELSE /\ hook_pc' = Awaiting("connect", "balances")
            /\ UNCHANGED <<walletState, error>>
    /\ UNCHANGED <<petra, since_disconnect>>
    /\ UNCHANGED <<nftVars, coaVars, backendVars>>

\* setWalletState of the connected state, then rewardNewPlayer(address),
\* not awaited, when coaBalance === 0.
ConnectBalances(aptBalance, coaBalance) ==
    /\ hook_pc["connect"] = "balances"
    /\ coaBalance = 0 => hook_pc["rewardNewPlayer"] = "idle"
    /\ walletState' = ConnectedState(aptBalance, coaBalance)
    /\ hook_pc' = [hook_pc EXCEPT !["connect"] = "idle",
                                  !["rewardNewPlayer"] = IF coaBalance = 0 THEN "post" ELSE @]
    /\ UNCHANGED <<error, petra, since_disconnect>>
    /\ UNCHANGED <<nftVars, coaVars, backendVars>>

\* disconnect() up to wallet.disconnect(); without a wallet object it resets
\* the state at once.
DisconnectCall ==
    /\ hook_pc["disconnect"] = "idle"
    /\ IF petra.installed
       THEN /\ hook_pc' = Awaiting("disconnect", "wallet.disconnect")
            /\ since_disconnect' = "disconnect called"
            /\ UNCHANGED <<walletState, error>>
       ELSE /\ walletState' = DisconnectedState
            /\ error' = NoError
            /\ since_disconnect' = "disconnected"
            /\ UNCHANGED hook_pc
    /\ UNCHANGED petra
    /\ UNCHANGED <<nftVars, coaVars, backendVars>>

DisconnectResolves(rejects) ==
    /\ hook_pc["disconnect"] = "wallet.disconnect"
    /\ hook_pc' = Awaiting("disconnect", "idle")
    /\ IF rejects
       THEN /\ error' = DisconnectFailed
            /\ since_disconnect' = IF since_disconnect = "disconnect called"
                                   THEN "none" ELSE since_disconnect
            /\ UNCHANGED <<walletState, petra>>
       ELSE /\ petra' = [petra EXCEPT !.connected = FALSE]
            /\ walletState' = DisconnectedState
            /\ error' = NoError
            /\ since_disconnect' = IF since_disconnect = "disconnect called"
                                   THEN "disconnected" ELSE since_disconnect
    /\ UNCHANGED <<nftVars, coaVars, backendVars>>

\* refreshBalance(): nothing without an address.
RefreshBalanceCall ==
    /\ hook_pc["refreshBalance"] = "idle"
    /\ walletState.address # NoAddress
    /\ hook_pc' = Awaiting("refreshBalance", "balances")
    /\ UNCHANGED <<walletState, error, petra, since_disconnect>>
    /\ UNCHANGED <<nftVars, coaVars, backendVars>>

RefreshBalanceBalances(aptBalance, coaBalance) ==
    /\ hook_pc["refreshBalance"] = "balances"
    /\ walletState' = [walletState EXCEPT !.balance = aptBalance, !.coaBalance = coaBalance]
    /\ hook_pc' = Awaiting("refreshBalance", "idle")
    /\ UNCHANGED <<error, petra, since_disconnect>>
    /\ UNCHANGED <<nftVars, coaVars, backendVars>>

\* rewardNewPlayer(address) called through the hook's return value.
RewardNewPlayerCall ==
    /\ hook_pc["rewardNewPlayer"] = "idle"
    /\ hook_pc' = Awaiting("rewardNewPlayer", "post")
    /\ UNCHANGED <<walletState, error, petra, since_disconnect>>
    /\ UNCHANGED <<nftVars, coaVars, backendVars>>

\* CoATokenService.rewardNewPlayer settled: a response that is not ok throws
\* and the catch block only logs.
RewardNewPlayerPost(ok) ==
    /\ hook_pc["rewardNewPlayer"] = "post"
    /\ hook_pc' = Awaiting("rewardNewPlayer", IF ok THEN "getCoABalance" ELSE "idle")
    /\ UNCHANGED <<walletState, error, petra, since_disconnect>>
    /\ UNCHANGED <<nftVars, coaVars, backendVars>>

RewardNewPlayerBalance(coaBalance) ==
    /\ hook_pc["rewardNewPlayer"] = "getCoABalance"
    /\ walletState' = [walletState EXCEPT !.coaBalance = coaBalance]
    /\ hook_pc' = Awaiting("rewardNewPlayer", "idle")
    /\ UNCHANGED <<error, petra, since_disconnect>>
    /\ UNCHANGED <<nftVars, coaVars, backendVars>>

-----------------------------------------------------------------------------
(* Actions of velmora_nft                                                  *)

Initialize ==
    LET st == InitializeStatus(Admin)
    IN  /\ nft_data' = Commit(st, InitialPool(Admin), nft_data)
        /\ last' = Outcome("initialize", Admin, st, 0)
        /\ emitted' = NoEvent
        /\ UNCHANGED <<token_data, token_owner, direct_transfer, returned, created>>
        /\ UNCHANGED <<coaVars, appVars>>

\* aptos_token::token::opt_in_direct_transfer, called by an account for itself.
OptInDirectTransfer(account) ==
    /\ direct_transfer' = direct_transfer \cup {account}
    /\ last' = Outcome("opt_in_direct_transfer", account, OK, 0)
    /\ emitted' = NoEvent
    /\ UNCHANGED <<nft_data, token_data, token_owner, returned, created>>
    /\ UNCHANGED <<coaVars, appVars>>

MintedToCreator(creator_addr, to, name, rarity, skill) ==
    [data |-> [token_data EXCEPT ![name] = [exists |-> TRUE, rarity |-> rarity, skill |-> skill]],
     owner |-> [token_owner EXCEPT ![name] = creator_addr],
     direct |-> direct_transfer \cup {creator_addr}]

\* The registry writes of a mint_nft that ran through.
Minted(creator_addr, to, name, rarity, skill) ==
    [data |-> [token_data EXCEPT ![name] = [exists |-> TRUE, rarity |-> rarity, skill |-> skill]],
     owner |-> [token_owner EXCEPT ![name] = to],
     direct |-> direct_transfer \cup {creator_addr}]

MintNft(creator, to, name, uri, rarity, skill) ==
    LET st == MintNftStatus(creator, to, name, uri, rarity, skill)
        m == Minted(creator, to, name, rarity, skill)
    IN  /\ token_data' = Commit(st, m.data, token_data)
        /\ token_owner' = Commit(st, m.owner, token_owner)
        /\ direct_transfer' = Commit(st, m.direct, direct_transfer)
        /\ last' = [Outcome("mint_nft", creator, st, 0) EXCEPT
                       !.args = [to |-> to, name |-> name, uri |-> uri,
                                 rarity |-> rarity, skill |-> skill]]
        /\ emitted' = Commit(st, MintEvent(name, creator, to, rarity, skill), NoEvent)
        /\ UNCHANGED <<nft_data, returned, created>>
        /\ UNCHANGED <<coaVars, appVars>>

\* Allocation a (of either strategy) followed by mint_nft_with_metadata_id.
AllocateAndMint(op, creator, to, a) ==
    LET st == IF a.status # OK THEN a.status
              ELSE MintNftStatus(creator, to, PoolTokenName(a.id), PoolTokenUri(a.id),
                                 PoolTokenRarity(a.id), PoolTokenSkill(a.id))
        m == Minted(creator, to, PoolTokenName(a.id), PoolTokenRarity(a.id), PoolTokenSkill(a.id))
    IN  /\ nft_data' = Commit(st, a.data, nft_data)
        /\ token_data' = IF a.status = OK THEN Commit(st, m.data, token_data) ELSE token_data
        /\ token_owner' = IF a.status = OK THEN Commit(st, m.owner, token_owner) ELSE token_owner
        /\ direct_transfer' = IF a.status = OK THEN Commit(st, m.direct, direct_transfer)
                              ELSE direct_transfer
        /\ returned' = IF st = OK THEN [returned EXCEPT ![a.id] = @ + 1] ELSE returned
        /\ created' = IF st = OK THEN [created EXCEPT ![a.id] = @ + 1] ELSE created
        /\ last' = Outcome(op, creator, st, a.id)
        /\ emitted' = Commit(st, MintEvent(PoolTokenName(a.id), creator, to,
                                           PoolTokenRarity(a.id), PoolTokenSkill(a.id)),
                             NoEvent)
        /\ UNCHANGED <<coaVars, appVars>>

MintRandomNftSecure(creator, to, random_number) ==
    AllocateAndMint("mint_random_nft_secure", creator, to,
                    SecureAlloc(creator, ResourceAt(creator), random_number))

MintRandomNft(creator, to, random_u64) ==
    AllocateAndMint("mint_random_nft", creator, to,
                    FallbackAlloc(creator, ResourceAt(creator), random_u64))

TransferNft(from, to, name) ==
    LET st == TransferStatus(from, to, name)
    IN  /\ token_owner' = Commit(st, [token_owner EXCEPT ![name] = to], token_owner)
        /\ last' = Outcome("transfer_nft", from, st, 0)
        /\ emitted' = IF ResourceAt(Admin).exists
                      THEN Commit(st, TransferEvent(name, from, to), NoEvent)
                      ELSE NoEvent
        /\ UNCHANGED <<nft_data, token_data, direct_transfer, returned, created>>
        /\ UNCHANGED <<coaVars, appVars>>

\* token::burn of the only copy (maximum 1) also destroys the token data.
Burned ==
    [n \in TokenNames |->
        [data |-> [token_data EXCEPT ![n] = NoToken],
         owner |-> [token_owner EXCEPT ![n] = NoOwner]]]

BurnNft(owner, name) ==
    LET st == BurnStatus(owner, name)
    IN  /\ token_data' = Commit(st, Burned[name].data, token_data)
        /\ token_owner' = Commit(st, Burned[name].owner, token_owner)
        /\ last' = Outcome("burn_nft", owner, st, 0)
        /\ emitted' = IF ResourceAt(Admin).exists
                      THEN Commit(st, BurnEvent(name, owner,
                                                get_nft_attributes(Admin, name).rarity,
                                                get_nft_attributes(Admin, name).skill),
                                  NoEvent)
                      ELSE NoEvent
        /\ UNCHANGED <<nft_data, direct_transfer, returned, created>>
        /\ UNCHANGED <<coaVars, appVars>>

AdminBurnNft(admin, owner, name) ==
    LET st == AdminBurnStatus(admin, owner, name)
    IN  /\ token_data' = Commit(st, Burned[name].data, token_data)
        /\ token_owner' = Commit(st, Burned[name].owner, token_owner)
        /\ last' = Outcome("admin_burn_nft", admin, st, 0)
        /\ emitted' = Commit(st, BurnEvent(name, owner,
                                           get_nft_attributes(admin, name).rarity,
                                           get_nft_attributes(admin, name).skill),
                             NoEvent)
        /\ UNCHANGED <<nft_data, direct_transfer, returned, created>>
        /\ UNCHANGED <<coaVars, appVars>>

WrappedMintMarksUsed(op, creator, to, metadata_id, range_error, name, uri, rarity, skill) ==
    LET st == IF ~(metadata_id >= 1 /\ metadata_id <= MAX_METADATA_ID) THEN range_error
              ELSE MintNftStatus(creator, to, name, uri, rarity, skill)
        m == Minted(creator, to, name, rarity, skill)
    IN  /\ token_data' = Commit(st, m.data, token_data)
        /\ token_owner' = Commit(st, m.owner, token_owner)
        /\ direct_transfer' = Commit(st, m.direct, direct_transfer)
        /\ created' = IF st = OK THEN [created EXCEPT ![metadata_id] = @ + 1] ELSE created
        /\ last' = [Outcome(op, creator, st, metadata_id) EXCEPT
                       !.args = [to |-> to, name |-> name, uri |-> uri,
                                 rarity |-> rarity, skill |-> skill]]
        /\ emitted' = Commit(st, MintEvent(name, creator, to, rarity, skill), NoEvent)
        /\ nft_data' = IF st = OK
                       THEN [nft_data EXCEPT !.used_metadata_ids = MarkUsed(@, metadata_id)]
                       ELSE nft_data
        /\ UNCHANGED returned
        /\ UNCHANGED <<coaVars, appVars>>

\* A wrapper of mint_nft called for metadata_id: its own assert on the id
\* (range_error when it fails), then mint_nft with the arguments it derives.
WrappedMint(op, creator, to, metadata_id, range_error, name, uri, rarity, skill) ==
    LET st == IF ~(metadata_id >= 1 /\ metadata_id <= MAX_METADATA_ID) THEN range_error
              ELSE MintNftStatus(creator, to, name, uri, rarity, skill)
        m == Minted(creator, to, name, rarity, skill)
    IN  /\ token_data' = Commit(st, m.data, token_data)
        /\ token_owner' = Commit(st, m.owner, token_owner)
        /\ direct_transfer' = Commit(st, m.direct, direct_transfer)
        /\ created' = IF st = OK THEN [created EXCEPT ![metadata_id] = @ + 1] ELSE created
        /\ last' = [Outcome(op, creator, st, metadata_id) EXCEPT
                       !.args = [to |-> to, name |-> name, uri |-> uri,
                                 rarity |-> rarity, skill |-> skill]]
        /\ emitted' = Commit(st, MintEvent(name, creator, to, rarity, skill), NoEvent)
        /\ UNCHANGED <<nft_data, returned>>
        /\ UNCHANGED <<coaVars, appVars>>

MintFromMetadataId(creator, to, metadata_id, rarity, skill) ==
    WrappedMint("mint_from_metadata_id", creator, to, metadata_id, InvalidURI,
                MetadataIdTokenName, MetadataIdUri(metadata_id), rarity, skill)

MintFromIpfsMetadata(creator, to, metadata_id) ==
    WrappedMint("mint_from_ipfs_metadata", creator, to, metadata_id, InvalidRarity,
                IpfsMetadataTokenName, IpfsMetadataUri(metadata_id),
                IpfsMetadataRarity(metadata_id), IpfsMetadataSkill(metadata_id))

\* mint_from_bridge: mint_nft with the uri "ipfs://" followed by the hash.
MintFromBridge(creator, to, name, ipfs_hash, rarity, skill) ==
    LET uri == "ipfs://" \o ipfs_hash
        st == MintNftStatus(creator, to, name, uri, rarity, skill)
        m == Minted(creator, to, name, rarity, skill)
    IN  /\ token_data' = Commit(st, m.data, token_data)
        /\ token_owner' = Commit(st, m.owner, token_owner)
        /\ direct_transfer' = Commit(st, m.direct, direct_transfer)
        /\ last' = [Outcome("mint_from_bridge", creator, st, 0) EXCEPT
                       !.args = [to |-> to, name |-> name, uri |-> uri,
                                 rarity |-> rarity, skill |-> skill]]
        /\ emitted' = Commit(st, MintEvent(name, creator, to, rarity, skill), NoEvent)
        /\ UNCHANGED <<nft_data, returned, created>>
        /\ UNCHANGED <<coaVars, appVars>>

\* Arguments of the direct mint_nft calls: one valid, one failing each check.
DirectMints ==
    {[uri |-> "ipfs://QmDirect", rarity |-> 12, skill |-> 7],
     [uri |-> "ipfs://QmDirect", rarity |-> 101, skill |-> 7],
     [uri |-> "ipfs://QmDirect", rarity |-> 12, skill |-> 101],
     [uri |-> "http://example.com/1.json", rarity |-> 12, skill |-> 7]}

\* Before either module's initialize has run.
InitCoa ==
    /\ coa_exists = FALSE
    /\ coa_store = {}
    /\ coa_balance = [a \in CoaAccounts |-> 0]
    /\ coa_supply = 0
    /\ reward_events = [a \in CoaAccounts |-> 0]
    /\ coa_last = CoaOutcome("none", NoOwner, OK, NoOwner, 0)
    /\ coa_emitted = CoaNoEvent

InitNft ==
    /\ nft_data = NoData
    /\ token_data = [n \in TokenNames |-> NoToken]
    /\ token_owner = [n \in TokenNames |-> NoOwner]
    /\ direct_transfer = {}
    /\ last = Outcome("none", NoOwner, OK, 0)
    /\ emitted = NoEvent
    /\ returned = [i \in 1..MAX_METADATA_ID |-> 0]
    /\ created = [i \in 1..MAX_METADATA_ID |-> 0]

\* Before the backend module is loaded.
InitBackend ==
    /\ admin_account = Unconstructed
    /\ requests = [r \in ReqIds |-> IdleRequest]

\* useState's initial values; no wallet extension yet.
InitHook ==
    /\ walletState = DisconnectedState
    /\ error = NoError
    /\ hook_pc = [op \in HookOps |-> "idle"]
    /\ petra = [installed |-> FALSE, connected |-> FALSE]
    /\ since_disconnect = "none"

Init == InitNft /\ InitCoa /\ InitBackend /\ InitHook

Next ==
    \/ Initialize
    \/ \E a \in Accounts : OptInDirectTransfer(a)
    \/ \E c \in Accounts, to \in Accounts, n \in DirectNames, m \in DirectMints :
          MintNft(c, to, n, m.uri, m.rarity, m.skill)
    \/ \E c \in Accounts, to \in Accounts, r \in 1..MAX_METADATA_ID :
          MintRandomNftSecure(c, to, r)
    \/ \E c \in Accounts, to \in Accounts, r \in 0..MaxRandomU64 : MintRandomNft(c, to, r)
    \/ \E f \in Accounts, to \in Accounts, n \in TokenNames : TransferNft(f, to, n)
    \/ \E o \in Accounts, n \in TokenNames : BurnNft(o, n)
    \/ \E a \in Accounts, o \in Accounts, n \in TokenNames : AdminBurnNft(a, o, n)

Spec == Init /\ [][Next]_vars

NextCoa ==
    \/ CoaInitialize
    \/ \E a \in CoaAccounts, to \in CoaAccounts, x \in Amounts : CoaMint(a, to, x)
    \/ \E a \in CoaAccounts, p \in CoaAccounts : CoaRewardNewPlayer(a, p)
    \/ \E a \in CoaAccounts, x \in Amounts : CoaBurn(a, x)
    \/ \E f \in CoaAccounts, to \in CoaAccounts, x \in Amounts : CoaTransfer(f, to, x)

SpecCoa == Init /\ [][NextCoa]_vars

\* A fresh pool whose only allocations are mint_random_nft calls by the admin
\* for recipients that can receive a token; tokens move freely meanwhile.
InitFallback ==
    /\ nft_data = InitialPool(Admin)
    /\ token_data = [n \in TokenNames |-> NoToken]
    /\ token_owner = [n \in TokenNames |-> NoOwner]
    /\ direct_transfer \in SUBSET Accounts
    /\ last = Outcome("initialize", Admin, OK, 0)
    /\ emitted = NoEvent
    /\ returned = [i \in 1..MAX_METADATA_ID |-> 0]
    /\ created = [i \in 1..MAX_METADATA_ID |-> 0]
    /\ InitCoa
    /\ InitBackend
    /\ InitHook

NextFallback ==
    \/ \E to \in direct_transfer \cup {Admin}, r \in 0..MaxRandomU64 :
          MintRandomNft(Admin, to, r)
    \/ \E a \in Accounts : OptInDirectTransfer(a)
    \/ \E f \in Accounts, to \in Accounts, n \in TokenNames : TransferNft(f, to, n)

SpecFallback == InitFallback /\ [][NextFallback]_vars

\* Arguments of mint_nft around its three validations: attributes at the
\* maximum and one above it; uris that carry an accepted prefix, that
\* stop one byte short of one, that carry it elsewhere than at the start or
\* in another case, and the empty one.
MintRarities == {MAX_RARITY, MAX_RARITY + 1}
MintSkills == {MAX_SKILL, MAX_SKILL + 1}
MintUris ==
    {"", "ipfs:/", "ipfs://", "ipfs://QmDirect", "IPFS://QmDirect", " ipfs://QmDirect",
     "https://ipfs.io/ipfs", "https://ipfs.io/ipfs/QmDirect", "http://ipfs.io/ipfs/QmDirect",
     "https://gateway.pinata.cloud/ipfs", "https://gateway.pinata.cloud/ipfs/QmDirect",
     "https://gateway.lighthouse.storage/ipfs", "https://gateway.lighthouse.storage/ipfs/QmDirect",
     "https://example.com/ipfs://QmDirect"}

\* mint_nft called with any of these, by any account for any account, before
\* and after initialize.
NextMint ==
    \/ Initialize
    \/ \E a \in Accounts : OptInDirectTransfer(a)
    \/ \E c \in Accounts, to \in Accounts, n \in DirectNames, uri \in MintUris,
          r \in MintRarities, s \in MintSkills : MintNft(c, to, n, uri, r, s)

SpecMint == Init /\ [][NextMint]_vars

\* The hash mint_from_bridge is called with.
BridgeHashes == {"QmBridge"}

\* Metadata ids the wrappers are called with: the first of the pool, and the
\* two just outside it.
WrapperIds == {0, 1, MAX_METADATA_ID + 1}

\* A pool allocation next to the three wrappers of mint_nft, all signed by the
\* admin.
NextDirect ==
    \/ Initialize
    \/ \E a \in Accounts : OptInDirectTransfer(a)
    \/ \E to \in Accounts : MintRandomNft(Admin, to, 0)
    \/ \E to \in Accounts, i \in WrapperIds :
          MintFromMetadataId(Admin, to, i, MAX_RARITY, 0)
    \/ \E to \in Accounts, i \in WrapperIds :
          MintFromIpfsMetadata(Admin, to, i)
    \/ \E to \in Accounts, n \in DirectNames, h \in BridgeHashes :
          MintFromBridge(Admin, to, n, h, 0, MAX_SKILL)

SpecDirect == Init /\ [][NextDirect]_vars

\* Every entry function of velmora_nft signed by the admin, and transfers and
\* burns signed by anyone, around one direct mint and the wrappers' ids.
NextFrame ==
    \/ Initialize
    \/ \E a \in Accounts : OptInDirectTransfer(a)
    \/ \E to \in Accounts, r \in 1..MAX_METADATA_ID : MintRandomNftSecure(Admin, to, r)
    \/ \E r \in 0..MaxRandomU64 : MintRandomNft(Admin, Admin, r)
    \/ \E n \in DirectNames : MintNft(Admin, Admin, n, "ipfs://QmDirect", MAX_RARITY, 0)
    \/ \E i \in WrapperIds : MintFromMetadataId(Admin, Admin, i, MAX_RARITY, 0)
    \/ \E i \in WrapperIds : MintFromIpfsMetadata(Admin, Admin, i)
    \/ \E n \in DirectNames, h \in BridgeHashes :
          MintFromBridge(Admin, Admin, n, h, 0, MAX_SKILL)
    \/ \E f \in Accounts, to \in Accounts, n \in TokenNames : TransferNft(f, to, n)
    \/ \E o \in Accounts, n \in TokenNames : BurnNft(o, n)
    \/ \E o \in Accounts, n \in TokenNames : AdminBurnNft(Admin, o, n)

SpecFrame == Init /\ [][NextFrame]_vars

\* The ledger with a funded player who can empty the store again, and the
\* route handling two requests.
NextBackend ==
    \/ \E k \in BOOLEAN : AptosServiceConstructor(k)
    \/ CoaInitialize
    \/ CoaMint(Admin, "alice", 100)
    \/ CoaTransfer("alice", Admin, 100)
    \/ \E r \in ReqIds, p \in PlayerAddresses : RouteStart(r, p)
    \/ \E r \in ReqIds, e \in BOOLEAN : RouteEligibility(r, e)
    \/ \E r \in ReqIds, e \in BOOLEAN : RouteReward(r, e)

SpecBackend == Init /\ [][NextBackend]_vars

\* The hook's functions called in any order while others are in flight.
NextWallet ==
    \/ InstallPetra
    \/ CheckConnectionCall
    \/ \E e \in BOOLEAN : CheckConnectionIsConnected(e)
    \/ \E e \in BOOLEAN : CheckConnectionAccount(e)
    \/ \E b \in AptBalances, c \in CoaBalances : CheckConnectionBalances(b, c)
    \/ ConnectCall
    \/ \E response \in ConnectResponses : ConnectResolves(response)
    \/ \E e \in BOOLEAN : ConnectAccount(e)
    \/ \E b \in AptBalances, c \in CoaBalances : ConnectBalances(b, c)
    \/ DisconnectCall
    \/ \E e \in BOOLEAN : DisconnectResolves(e)
    \/ RefreshBalanceCall
    \/ \E b \in AptBalances, c \in CoaBalances : RefreshBalanceBalances(b, c)
    \/ RewardNewPlayerCall
    \/ \E ok \in BOOLEAN : RewardNewPlayerPost(ok)
    \/ \E c \in CoaBalances : RewardNewPlayerBalance(c)

SpecWallet == Init /\ [][NextWallet]_vars

\* Both initialize functions, called again and again by the admin between
\* allocations and ledger mints.
NextInit ==
    \/ Initialize
    \/ CoaInitialize
    \/ \E a \in Accounts : OptInDirectTransfer(a)
    \/ \E to \in Accounts, r \in 1..MAX_METADATA_ID : MintRandomNftSecure(Admin, to, r)
    \/ \E to \in CoaAccounts : CoaMint(Admin, to, 100)

SpecInit == Init /\ [][NextInit]_vars

-----------------------------------------------------------------------------
(* Properties of the unique asset pool                                     *)

AllocOps == {"mint_random_nft_secure", "mint_random_nft"}
Ids == 1..MAX_METADATA_ID

RECURSIVE SumTo(_, _)
SumTo(f, n) == IF n = 0 THEN 0 ELSE f[n] + SumTo(f, n - 1)
TimesReturned == SumTo(returned, MAX_METADATA_ID)

Occurrences(v, x) == Cardinality({k \in 1..Len(v) : v[k] = x})
Elems(v) == {v[k] : k \in 1..Len(v)}
Unused(d) == {i \in 1..Len(d.used_metadata_ids) : ~d.used_metadata_ids[i]}

\* C1: over any mix of successful mint_random_nft_secure and mint_random_nft
\* calls no metadata id is returned twice, and is_metadata_id_used(id) is true
\* in the state right after the call that returned id.
C1_NoIdReturnedTwice ==
    /\ \A i \in Ids : returned[i] <= 1
    /\ (last.op \in AllocOps /\ last.status = OK) =>
          (last.id \in Ids /\ is_metadata_id_used(Admin, last.id))

C1_Witness ==
    /\ last.op = "mint_random_nft_secure" /\ last.status = OK
    /\ TimesReturned = MAX_METADATA_ID
    /\ is_metadata_id_used(Admin, last.id)

\* C2: in an initialized pool available_count = length(available_metadata_ids)
\* = number of false entries of used_metadata_ids, and every id of 1..N is
\* either once in the available vector and not used, or used and not in it.
C2_PoolPartition ==
    nft_data.exists =>
        /\ Len(nft_data.used_metadata_ids) = MAX_METADATA_ID
        /\ nft_data.available_count = Len(nft_data.available_metadata_ids)
        /\ nft_data.available_count = Cardinality(Unused(nft_data))
        /\ Elems(nft_data.available_metadata_ids) \subseteq Ids
        /\ \A i \in Ids :
              \/ /\ ~nft_data.used_metadata_ids[i]
                 /\ Occurrences(nft_data.available_metadata_ids, i) = 1
              \/ /\ nft_data.used_metadata_ids[i]
                 /\ Occurrences(nft_data.available_metadata_ids, i) = 0

C2_Witness ==
    /\ nft_data.exists
    /\ nft_data.available_count = 1
    /\ last.op = "mint_random_nft_secure" /\ last.status = OK

\* C3: a mint_random_nft_secure / mint_random_nft call by the admin of an
\* initialized pool aborts with invalid_state(E_COLLECTION_NOT_FOUND)
\* (PoolExhausted) exactly when available_count was 0 at the call.
C3_ExhaustedIffZero ==
    [][(last'.op \in AllocOps /\ last'.caller = Admin /\ nft_data.exists) =>
          ((last'.status = PoolExhausted) <=> (get_available_count(Admin) = 0))]_vars

C3_Witness ==
    /\ last.op = "mint_random_nft" /\ last.caller = Admin
    /\ last.status = PoolExhausted
    /\ nft_data.exists /\ get_available_count(Admin) = 0

\* C4: a used-bitmap entry that is true stays true in every later state, and
\* its id does not come back into the available vector, whatever is called.
C4_UsedStaysUsed ==
    [][\A i \in Ids :
          (nft_data.exists /\ nft_data.used_metadata_ids[i]) =>
             /\ nft_data'.exists
             /\ nft_data'.used_metadata_ids[i]
             /\ i \notin Elems(nft_data'.available_metadata_ids)]_vars

C4_Witness ==
    /\ last.op = "transfer_nft" /\ last.status = OK
    /\ \E i \in Ids : nft_data.exists /\ nft_data.used_metadata_ids[i]
                        /\ token_owner[PoolTokenName(i)] = "alice"

\* C5: a successful allocation of id lowers available_count by exactly 1,
\* flips used_metadata_ids[id] from false to true and nothing else in the
\* bitmap, and takes id and nothing else out of the available vector.
C5_AllocationDelta ==
    [][(last'.op \in AllocOps /\ last'.status = OK) =>
          /\ last'.id \in Ids
          /\ nft_data'.available_count = nft_data.available_count - 1
          /\ ~nft_data.used_metadata_ids[last'.id]
          /\ nft_data'.used_metadata_ids =
                [nft_data.used_metadata_ids EXCEPT ![last'.id] = TRUE]
          /\ Len(nft_data'.available_metadata_ids) = Len(nft_data.available_metadata_ids) - 1
          /\ \A i \in Ids \ {last'.id} :
                Occurrences(nft_data'.available_metadata_ids, i)
                   = Occurrences(nft_data.available_metadata_ids, i)
          /\ Occurrences(nft_data'.available_metadata_ids, last'.id) = 0]_vars

C5_Witness ==
    /\ last.op = "mint_random_nft" /\ last.status = OK
    /\ nft_data.available_count = MAX_METADATA_ID - 2
    /\ nft_data.used_metadata_ids[last.id]

\* C6: on a fresh pool of capacity N, mint_random_nft calls by the admin for a
\* recipient that can receive succeed N times in a row, each returning an id
\* of 1..N not returned before, so that the N calls return every id once; the
\* call after that aborts with PoolExhausted.
C6_FallbackExhaustsPool ==
    /\ \A i \in Ids : returned[i] <= 1
    /\ TimesReturned = MAX_METADATA_ID - nft_data.available_count
    /\ last.op = "mint_random_nft" =>
          \/ /\ last.status = OK
             /\ last.id \in Ids
             /\ returned[last.id] = 1
          \/ /\ last.status = PoolExhausted
             /\ \A i \in Ids : returned[i] = 1

C6_Witness ==
    /\ last.op = "mint_random_nft" /\ last.status = PoolExhausted
    /\ \A i \in Ids : returned[i] = 1

\* C7: when the registry mint inside an allocation aborts, the whole call
\* aborts and the pool (and everything else) is as it was before the call.
C7_AllOrNothing ==
    [][(last'.op \in AllocOps /\ last'.status # OK) =>
          UNCHANGED <<nft_data, token_data, token_owner, direct_transfer, returned>>]_vars

C7_Witness ==
    /\ last.op \in AllocOps /\ last.caller = Admin
    /\ last.status = TokenDataAlreadyExists
    /\ nft_data.exists /\ nft_data.available_count > 0

-----------------------------------------------------------------------------
(* Properties of the balance ledger                                        *)

RewardCall(p) ==
    /\ coa_last'.op = "reward_new_player"
    /\ coa_last'.caller = Admin
    /\ coa_last'.account = p

\* C8: reward_new_player(admin, P) twice in a row for a player P whose balance
\* is zero, P having a primary store or not, credits P once with 650 CoA
\* (65000000000 base units); the second call returns without error and leaves
\* P's balance at 650 CoA.
C8_RewardTwiceCreditsOnce ==
    /\ IsWholeCoa(INITIAL_PLAYER_AMOUNT_DIGITS) /\ INITIAL_PLAYER_AMOUNT = 650
    /\ [][\A p \in CoaAccounts :
            /\ (RewardCall(p) /\ coa_exists /\ balance(p) = 0) =>
                  /\ coa_last'.status = OK
                  /\ balance(p)' = INITIAL_PLAYER_AMOUNT
                  /\ reward_events'[p] = reward_events[p] + 1
            /\ (RewardCall(p) /\ coa_last.op = "reward_new_player" /\ coa_last.caller = Admin
                  /\ coa_last.account = p /\ coa_last.status = OK) =>
                  /\ coa_last'.status = OK
                  /\ balance(p)' = balance(p)
                  /\ reward_events' = reward_events]_vars

\* C9: over any sequence of mint, burn, transfer and reward_new_player calls no
\* account is paid the new-player reward more than once.
C9_NoDoubleReward == \A p \in CoaAccounts : reward_events[p] <= 1

\* C10: reward_new_player by the admin for a player whose balance is not 0
\* returns without error and changes no balance, not the supply, and emits no
\* PlayerLoginReward event.
C10_RewardNoOp ==
    [][\A p \in CoaAccounts :
          (RewardCall(p) /\ coa_exists /\ balance(p) # 0) =>
             /\ coa_last'.status = OK
             /\ UNCHANGED <<coa_balance, coa_supply, coa_store, reward_events>>]_vars

C10_Witness ==
    /\ coa_last.op = "reward_new_player" /\ coa_last.caller = Admin
    /\ coa_last.status = OK
    /\ balance(coa_last.account) = 100
    /\ reward_events[coa_last.account] = 0

AdminOnlyCoaOps == {"mint", "burn", "reward_new_player"}

\* C11: on an initialized ledger, mint, burn and reward_new_player signed by an
\* account that does not own the metadata object abort with
\* permission_denied(E_NOT_OWNER), whatever the other arguments and the
\* balances are, and leave every store, every balance, the supply and the
\* reward events as they were.
C11_NonAdminDenied ==
    [][(coa_exists /\ coa_last'.op \in AdminOnlyCoaOps /\ coa_last'.caller # Admin) =>
          /\ coa_last'.status = NotOwnerDenied
          /\ UNCHANGED <<coa_store, coa_balance, coa_supply, reward_events>>]_vars

C11_Witness ==
    /\ coa_last = CoaOutcome("mint", "alice", NotOwnerDenied, Admin, 100)
    /\ balance(Admin) = 650
    /\ balance("alice") = 0

\* The balances as the view function reports them.
Balances == [a \in CoaAccounts |-> balance(a)]

\* C12: a mint(admin, to, amount) that returns without abort raises
\* balance(to) by exactly amount, leaves to with a primary store whether or
\* not it had one, and changes the balance and the store of no other account.
C12_MintCredits ==
    [][\A c \in CoaAccounts, to \in CoaAccounts, x \in Amounts :
          (coa_last' = CoaOutcome("mint", c, OK, to, x)) =>
             /\ balance(to)' = balance(to) + x
             /\ to \in coa_store'
             /\ \A a \in CoaAccounts \ {to} :
                   /\ balance(a)' = balance(a)
                   /\ (a \in coa_store') <=> (a \in coa_store)]_vars

C12_Witness ==
    /\ coa_last = CoaOutcome("mint", Admin, OK, "alice", 100)
    /\ balance("alice") = 100
    /\ reward_events["alice"] = 0
    /\ balance(Admin) = 650

\* C13: the supply equals the sum of all balances in every reachable state;
\* a step raises it only when it is a mint by the admin that returned without
\* abort (by the amount minted) or a reward_new_player by the admin that
\* credited (by INITIAL_PLAYER_AMOUNT), lowers it only when it is a burn by
\* the admin that returned without abort (by the amount burned), and a
\* transfer leaves it as it was.
C13_SupplyIsSumOfBalances ==
    /\ [](coa_supply = SumOver(Balances, CoaAccounts))
    /\ [][/\ (coa_supply' > coa_supply) =>
               \/ /\ coa_last'.op = "mint" /\ coa_last'.caller = Admin
                  /\ coa_last'.status = OK
                  /\ coa_supply' = coa_supply + coa_last'.amount
               \/ /\ coa_last'.op = "reward_new_player" /\ coa_last'.caller = Admin
                  /\ coa_last'.status = OK
                  /\ reward_events' # reward_events
                  /\ coa_supply' = coa_supply + INITIAL_PLAYER_AMOUNT
          /\ (coa_supply' < coa_supply) =>
               /\ coa_last'.op = "burn" /\ coa_last'.caller = Admin
               /\ coa_last'.status = OK
               /\ coa_supply' = coa_supply - coa_last'.amount
          /\ (coa_last'.op = "mint" /\ coa_last'.status = OK) =>
               coa_supply' = coa_supply + coa_last'.amount
          /\ (coa_last'.op = "burn" /\ coa_last'.status = OK) =>
               coa_supply' = coa_supply - coa_last'.amount
          /\ (coa_last'.op = "transfer") => coa_supply' = coa_supply]_vars

C13_Witness ==
    /\ coa_last = CoaOutcome("burn", Admin, OK, Admin, 100)
    /\ coa_supply = 550
    /\ balance("alice") = 550
    /\ balance(Admin) = 0

\* C14: a burn by the admin of more than the admin's balance, and a transfer
\* of more than the sender's balance, abort with
\* invalid_argument(EINSUFFICIENT_BALANCE) and change no balance; no balance
\* is negative in any reachable state.
C14_InsufficientBalanceRejected ==
    /\ [](\A a \in CoaAccounts : coa_balance[a] >= 0)
    /\ [][/\ (coa_exists /\ coa_last'.op = "burn" /\ coa_last'.caller = Admin
                /\ balance(Admin) < coa_last'.amount) =>
               /\ coa_last'.status = InsufficientBalance
               /\ UNCHANGED <<coa_balance, coa_supply>>
          /\ (coa_exists /\ coa_last'.op = "transfer"
                /\ balance(coa_last'.caller) < coa_last'.amount) =>
               /\ coa_last'.status = InsufficientBalance
               /\ UNCHANGED <<coa_balance, coa_supply>>]_vars

\* What of C14 the code does keep: the calls abort and change nothing, the
\* burn with EINSUFFICIENT_BALANCE once the admin has a primary store.
C14_FailsClosed ==
    /\ [](\A a \in CoaAccounts : coa_balance[a] >= 0)
    /\ [][/\ (coa_exists /\ coa_last'.op = "burn" /\ coa_last'.caller = Admin
                /\ balance(Admin) < coa_last'.amount) =>
               /\ coa_last'.status =
                     IF Admin \in coa_store THEN InsufficientBalance ELSE ObjectNotFound
               /\ UNCHANGED <<coa_balance, coa_supply>>
          /\ (coa_exists /\ coa_last'.op = "transfer"
                /\ balance(coa_last'.caller) < coa_last'.amount) =>
               /\ coa_last'.status = InsufficientBalance
               /\ UNCHANGED <<coa_balance, coa_supply>>]_vars

\* mint(admin, A, 100) then burn(admin, 100), applied to the current ledger.
MintThenBurn(A) ==
    LET m == mint(Ledger, Admin, A, 100)
        b == burn(m.ledger, Admin, 100)
    IN  [minted |-> m, burned |-> b]

\* C15 as stated: on an initialized ledger, for every account A,
\* mint(admin, A, 100) followed by burn(admin, 100) leaves the admin's
\* balance at its value before the mint.
C15_MintBurnRestoresAdmin ==
    coa_exists =>
        \A A \in CoaAccounts :
            BalanceOf(MintThenBurn(A).burned.ledger, Admin) = balance(Admin)

\* C15, amended: when the mint goes through, mint(admin, admin, 100) followed
\* by burn(admin, 100) both return without abort and leave every balance and
\* the supply at their values before the mint; for A other than the admin the
\* mint credits A and the burn, when the admin holds 100 or more, takes 100
\* from the admin, whose balance ends 100 below its value before the mint.
C15_MintBurnOwnAccount ==
    coa_exists =>
        \A A \in CoaAccounts :
            LET r == MintThenBurn(A)
            IN  r.minted.status = OK =>
                   IF A = Admin
                   THEN /\ r.burned.status = OK
                        /\ r.burned.ledger.bal = coa_balance
                        /\ r.burned.ledger.supply = coa_supply
                   ELSE /\ BalanceOf(r.burned.ledger, A) = balance(A) + 100
                        /\ (r.burned.status = OK) <=>
                              (Admin \in coa_store /\ balance(Admin) >= 100)
                        /\ BalanceOf(r.burned.ledger, Admin) =
                              IF r.burned.status = OK THEN balance(Admin) - 100
                              ELSE balance(Admin)

C15_Witness ==
    /\ coa_last = CoaOutcome("burn", Admin, OK, Admin, 100)
    /\ coa_supply = 0
    /\ MintThenBurn(Admin).burned.status = OK
    /\ MintThenBurn("alice").burned.status = InsufficientBalance

\* transfer(A, B, x) then transfer(B, A, x), applied to the current ledger.
TransferThenBack(A, B, x) ==
    LET there == transfer(Ledger, A, B, x)
        back == transfer(there.ledger, B, A, x)
    IN  [there |-> there, back |-> back]

\* The amounts a round trip from A is tried with: the call amounts and the
\* whole balance, as far as A's balance covers them.
RoundTripAmounts(A) == {x \in Amounts \cup {balance(A)} : x > 0 /\ x <= balance(A)}

RoundTripRestores(A, B, x) ==
    LET r == TransferThenBack(A, B, x)
    IN  /\ r.there.status = OK
        /\ r.back.status = OK
        /\ \A a \in CoaAccounts : BalanceOf(r.back.ledger, a) = balance(a)
        /\ r.back.ledger.supply = coa_supply

\* C16 as stated: on an initialized ledger, for all accounts A and B, A = B
\* included, and every x up to A's balance, transfer(A, B, x) followed by
\* transfer(B, A, x) both return without abort and leave every balance at its
\* value before the first transfer.
C16_TransferRoundTrip ==
    coa_exists =>
        \A A \in CoaAccounts, B \in CoaAccounts :
            \A x \in RoundTripAmounts(A) : RoundTripRestores(A, B, x)

\* C16, amended: the same, for every x that B's store has room for
\* (A = B, or B's balance plus x within u64); when B's balance plus x does
\* not fit, the first transfer aborts and changes nothing.
C16_TransferRoundTripInRange ==
    coa_exists =>
        \A A \in CoaAccounts, B \in CoaAccounts :
            \A x \in RoundTripAmounts(A) :
                IF A = B \/ balance(B) + x <= MAX_U64
                THEN RoundTripRestores(A, B, x)
                ELSE /\ transfer(Ledger, A, B, x).status = ARITHMETIC_ERROR
                     /\ transfer(Ledger, A, B, x).ledger = Ledger

C16_Witness ==
    /\ coa_last = CoaOutcome("transfer", "alice", OK, Admin, 100)
    /\ balance(Admin) = 100
    /\ balance("alice") = 0
    /\ "alice" \in coa_store
    /\ RoundTripRestores(Admin, "alice", 100)
    /\ RoundTripRestores(Admin, Admin, 100)

\* C17: a mint by the admin that would take the recipient's balance past the
\* largest value a store can hold aborts and leaves every balance, every
\* store and the supply as they were; a reward_new_player for a player whose
\* balance has no room for the reward credits nothing; and no balance ever
\* exceeds that value or goes below zero, as a wrapped sum would.
C17_MintOverflowFails ==
    /\ [](\A a \in CoaAccounts : coa_balance[a] >= 0 /\ coa_balance[a] <= MAX_U64)
    /\ [][/\ (coa_exists /\ coa_last'.op = "mint" /\ coa_last'.caller = Admin
                /\ balance(coa_last'.account) + coa_last'.amount > MAX_U64) =>
               /\ coa_last'.status # OK
               /\ UNCHANGED <<coa_store, coa_balance, coa_supply>>
          /\ (coa_exists /\ coa_last'.op = "reward_new_player"
                /\ balance(coa_last'.account) + INITIAL_PLAYER_AMOUNT > MAX_U64) =>
               UNCHANGED <<coa_store, coa_balance, coa_supply, reward_events>>]_vars

C17_Witness ==
    /\ coa_last = CoaOutcome("mint", Admin, ARITHMETIC_ERROR, "alice", 100)
    /\ balance("alice") = 650
    /\ coa_supply = 650

-----------------------------------------------------------------------------
(* Properties of the asset registry                                        *)

AdminOnlyOps == {"mint_nft", "mint_random_nft_secure", "mint_random_nft"}

RegistryUnchanged ==
    /\ UNCHANGED <<nft_data, token_data, token_owner, direct_transfer, returned, created>>
    /\ emitted' = NoEvent

\* C18: with the pool initialized, mint_nft, mint_random_nft_secure and
\* mint_random_nft signed by an account other than the admin abort with
\* permission_denied(E_NOT_AUTHORIZED), whatever the other arguments are (the
\* admin check comes before every other validation), and leave pool and
\* registry as they were.
C18_NonAdminDenied ==
    [][(nft_data.exists /\ last'.op \in AdminOnlyOps /\ last'.caller # Admin) =>
          /\ last'.status = PermissionDenied
          /\ RegistryUnchanged]_vars

\* What of C18 the code does keep: the call aborts and changes nothing.
C18_NonAdminChangesNothing ==
    [][(last'.op \in AdminOnlyOps /\ last'.caller # Admin) =>
          /\ last'.status \in {MISSING_DATA, InvalidRarity, InvalidSkill, InvalidURI}
          /\ RegistryUnchanged]_vars

\* C19: mint_nft with rarity above MAX_RARITY or skill above MAX_SKILL aborts
\* with invalid_argument(E_INVALID_RARITY) or invalid_argument(E_INVALID_SKILL),
\* whoever calls it, creates no token data, emits no MintEvent and leaves
\* pool and registry as they were.
C19_InvalidAttributeRejected ==
    [][(last'.op = "mint_nft"
          /\ (last'.args.rarity > MAX_RARITY \/ last'.args.skill > MAX_SKILL)) =>
          /\ last'.status \in {InvalidRarity, InvalidSkill}
          /\ RegistryUnchanged]_vars

C19_Witness ==
    /\ last.op = "mint_nft" /\ last.caller = Admin
    /\ last.status = InvalidSkill
    /\ last.args.rarity = MAX_RARITY /\ last.args.skill = MAX_SKILL + 1
    /\ validate_ipfs_uri(last.args.uri)
    /\ nft_data.exists
    /\ ~token_data[last.args.name].exists

AcceptedPrefixes ==
    {"ipfs://", "https://ipfs.io/ipfs/", "https://gateway.pinata.cloud/ipfs/",
     "https://gateway.lighthouse.storage/ipfs/"}

\* uri begins with one of the accepted prefixes.
HasAcceptedPrefix(uri) ==
    \E prefix \in AcceptedPrefixes : \E k \in 0..Len(uri) : SubSeq(uri, 1, k) = prefix

\* The uris mint_nft is called with that begin with an accepted prefix.
PrefixedUris == {uri \in MintUris \cup {d.uri : d \in DirectMints} : HasAcceptedPrefix(uri)}

\* C20: a mint_nft call whose attributes are in range aborts with
\* invalid_argument(E_INVALID_URI) exactly when its uri does not begin with
\* "ipfs://", "https://ipfs.io/ipfs/", "https://gateway.pinata.cloud/ipfs/" or
\* "https://gateway.lighthouse.storage/ipfs/"; a call with such a uri, the
\* empty one and those shorter than every prefix included, never returns
\* without abort and creates no token data.
C20_UriAcceptedIffPrefixed ==
    [][(last'.op = "mint_nft") =>
          /\ (last'.args.rarity <= MAX_RARITY /\ last'.args.skill <= MAX_SKILL) =>
                ((last'.status = InvalidURI) <=> last'.args.uri \notin PrefixedUris)
          /\ last'.args.uri \notin PrefixedUris =>
                /\ last'.status \in {InvalidRarity, InvalidSkill, InvalidURI}
                /\ RegistryUnchanged]_vars

C20_Witness ==
    /\ last.op = "mint_nft" /\ last.caller = Admin
    /\ last.status = InvalidURI
    /\ last.args.uri = "https://gateway.lighthouse.storage/ipfs"
    /\ nft_data.exists
    /\ \E n \in DirectNames :
          /\ token_data[n].exists
          /\ token_owner[n] = "alice"

-----------------------------------------------------------------------------
(* Properties of the asset records                                         *)

MintOps ==
    AllocOps \cup {"mint_nft", "mint_from_metadata_id", "mint_from_ipfs_metadata",
                   "mint_from_bridge"}

\* C21: an asset record is created exactly once per identifier: no metadata
\* id ever has two token data created for it, whether by a pool allocation
\* or by mint_from_metadata_id / mint_from_ipfs_metadata called with that id.
C21_OneRecordPerIdentifier == \A i \in Ids : created[i] <= 1

\* What of C21 the code does keep: every mint that returns creates exactly
\* one token data, under a name that had none, held by `to`, and touches no
\* other token.
C21_MintCreatesOneRecord ==
    [][(last'.op \in MintOps /\ last'.status = OK) =>
          \E n \in TokenNames :
              /\ ~token_data[n].exists /\ token_data'[n].exists
              /\ emitted' = MintEvent(n, last'.caller, token_owner'[n],
                                      token_data'[n].rarity, token_data'[n].skill)
              /\ token_owner'[n] \in Accounts
              /\ \A k \in TokenNames \ {n} :
                    token_data'[k] = token_data[k] /\ token_owner'[k] = token_owner[k]]_vars

\* C22: transfer_nft of a live token signed by an account that does not hold
\* it aborts with the not-owner error (token::transfer's
\* invalid_argument(EINSUFFICIENT_BALANCE)), whoever the recipient is; no
\* owner changes and no TransferEvent is emitted.
C22_NonOwnerTransferNotOwner ==
    [][\A f \in Accounts, to \in Accounts, n \in TokenNames :
          (TransferNft(f, to, n) /\ token_data[n].exists /\ token_owner[n] # f) =>
              /\ last'.status = InsufficientTokenBalance
              /\ token_owner' = token_owner
              /\ emitted' = NoEvent]_vars

\* C22 as the code has it, for live tokens and for names that have none: the
\* call aborts, with the not-owner error when
\* the recipient can receive tokens and with the recipient's missing
\* TokenStore otherwise; no owner changes and no TransferEvent is emitted.
C22_NonOwnerTransferFails ==
    [][\A f \in Accounts, to \in Accounts, n \in TokenNames :
          (TransferNft(f, to, n) /\ token_owner[n] # f) =>
              /\ last'.status = IF to \in direct_transfer THEN InsufficientTokenBalance
                                 ELSE MISSING_TOKEN_STORE
              /\ token_owner' = token_owner
              /\ token_data' = token_data
              /\ emitted' = NoEvent]_vars

C22_Witness ==
    /\ last.op = "transfer_nft" /\ last.caller = "alice"
    /\ last.status = InsufficientTokenBalance
    /\ emitted = NoEvent
    /\ direct_transfer = Accounts
    /\ \E n \in TokenNames : token_data[n].exists /\ token_owner[n] = Admin

\* Live tokens are those that have a holder.
OwnedIffLive == \A n \in TokenNames : token_data[n].exists <=> token_owner[n] \in Accounts

\* A mint that returns makes `to` the holder of the token it created.
MintSetsOwner ==
    (last'.op \in MintOps /\ last'.status = OK) =>
        /\ emitted'.type = "MintEvent"
        /\ token_owner[emitted'.token_id] = NoOwner
        /\ token_owner' = [token_owner EXCEPT ![emitted'.token_id] = emitted'.to]

\* Calls that neither mint nor transfer leave every holder as it was.
OthersKeepOwners ==
    (last'.op \notin MintOps \cup {"transfer_nft"}) => token_owner' = token_owner

\* C23: every live token has exactly one owner; a mint that returns makes `to`
\* the owner; a transfer_nft that returns, signed by the current owner (the
\* admin or not), makes `to` the owner and leaves `from` no longer an owner;
\* no other call changes an owner.
C23_SingleOwner ==
    /\ []OwnedIffLive
    /\ [][/\ MintSetsOwner
          /\ OthersKeepOwners
          /\ \A f \in Accounts, to \in Accounts, n \in TokenNames :
                (TransferNft(f, to, n) /\ last'.status = OK) =>
                    /\ token_owner[n] = f
                    /\ token_owner' = [token_owner EXCEPT ![n] = to]
                    /\ token_owner'[n] # f]_vars

\* C23 with the transfer of a token to its own holder set apart: it returns
\* and leaves the holder, who is both `from` and `to`, the owner.
C23_SingleOwnerDistinctParties ==
    /\ []OwnedIffLive
    /\ [][/\ MintSetsOwner
          /\ OthersKeepOwners
          /\ \A f \in Accounts, to \in Accounts, n \in TokenNames :
                (TransferNft(f, to, n) /\ last'.status = OK) =>
                    /\ token_owner[n] = f
                    /\ token_owner' = [token_owner EXCEPT ![n] = to]
                    /\ (f # to) => token_owner'[n] # f
                    /\ (f = to) => token_owner' = token_owner]_vars

C23_Witness ==
    /\ last.op = "transfer_nft" /\ last.caller = "alice" /\ last.status = OK
    /\ emitted.type = "TransferEvent" /\ emitted.from = "alice" /\ emitted.to = Admin
    /\ token_data[emitted.token_id].exists
    /\ token_owner[emitted.token_id] = Admin

BurnOps == {"burn_nft", "admin_burn_nft"}

\* The token named n is gone: no token data and no holder.
Deleted(n) ==
    /\ token_data' = [token_data EXCEPT ![n] = NoToken]
    /\ token_owner' = [token_owner EXCEPT ![n] = NoOwner]

\* C24: with the pool initialized, burn_nft of a live token returns for its
\* current owner and admin_burn_nft returns for the admin on any live token,
\* and each deletes the record; burn_nft signed by an account that is neither
\* the owner nor the admin aborts with permission_denied(E_NOT_AUTHORIZED) and
\* leaves record and owner as they were.
C24_BurnByOwnerOrAdmin ==
    [][/\ \A o \in Accounts, n \in TokenNames :
            (BurnNft(o, n) /\ nft_data.exists /\ token_data[n].exists) =>
                IF token_owner[n] = o
                THEN last'.status = OK /\ Deleted(n)
                ELSE /\ last'.status = PermissionDenied
                     /\ UNCHANGED <<token_data, token_owner>>
       /\ \A o \in Accounts, n \in TokenNames :
            (AdminBurnNft(Admin, o, n) /\ nft_data.exists /\ token_owner[n] = o) =>
                last'.status = OK /\ Deleted(n)]_vars

\* What the code does instead: no burn_nft and no admin_burn_nft ever
\* returns; each aborts, the one of a live token by its owner or by the
\* admin at the attribute read or inside the token framework's burn, and
\* leaves every record and owner as it was.
C24_BurnNeverReturns ==
    [][/\ (last'.op \in BurnOps) =>
            /\ last'.status # OK
            /\ RegistryUnchanged
       /\ \A o \in Accounts, n \in TokenNames :
            (BurnNft(o, n) /\ token_owner[n] = o) =>
                last'.status = IF o = Admin THEN OwnerCannotBurn ELSE NoTokenBalance
       /\ \A o \in Accounts, n \in TokenNames :
            (AdminBurnNft(Admin, o, n) /\ nft_data.exists /\ token_owner[n] = o) =>
                last'.status = IF o = Admin THEN CreatorCannotBurn ELSE NoTokenBalance]_vars

\* The attributes stored for the live token n, as a successful read gives them.
StoredAttributes(n) ==
    [status |-> OK, rarity |-> token_data[n].rarity, skill |-> token_data[n].skill]

\* C25: get_nft_attributes, called with the collection's creator, returns the
\* rarity and skill stored at mint for every live token, whoever holds it and
\* after any transfers, and aborts with a not-found error exactly for the
\* names that have no live token.
C25_AttributesOfLive ==
    \A n \in TokenNames :
        IF token_data[n].exists
        THEN get_nft_attributes(Admin, n) = StoredAttributes(n)
        ELSE get_nft_attributes(Admin, n).status = NoTokenBalance

\* What the code does instead: the read returns the stored attributes exactly
\* while the creator itself holds the token, and aborts with the same
\* not-found error for a live token held by anyone else as for a name that has
\* no token; the attributes stored at mint are those of the mint_nft call
\* and never change while the token lives.
C25_AttributesWhileCreatorHolds ==
    /\ [](\A n \in TokenNames :
            IF token_owner[n] = Admin
            THEN token_data[n].exists /\ get_nft_attributes(Admin, n) = StoredAttributes(n)
            ELSE get_nft_attributes(Admin, n).status = NoTokenBalance)
    /\ [][/\ \A n \in TokenNames :
                token_data[n].exists => token_data'[n] = token_data[n]
          /\ (last'.op = "mint_nft" /\ last'.status = OK) =>
                token_data'[last'.args.name] =
                    [exists |-> TRUE, rarity |-> last'.args.rarity,
                     skill |-> last'.args.skill]]_vars

C26_NoBurnEvent == emitted.type # "BurnEvent"

-----------------------------------------------------------------------------
(* Properties of the pool's views and of the circular scan                 *)

\* Identifiers the views are asked about: 0, the pool's, and two past the end.
QueriedIds == 0..(MAX_METADATA_ID + 2)

\* C27: is_metadata_id_used never aborts (the bitmap is only read at an index
\* it has) and answers true for identifier 0, for every identifier above
\* MAX_METADATA_ID and for every identifier when the creator asked about has
\* no pool, and the bitmap entry otherwise; get_available_count answers 0 for
\* a creator that has no pool and the pool's counter otherwise.
C27_ViewsTotal ==
    \A c \in Accounts, id \in QueriedIds :
        /\ IF ~ResourceAt(c).exists \/ id = 0 \/ id > MAX_METADATA_ID
           THEN is_metadata_id_used(c, id) = TRUE
           ELSE /\ c = Admin
                /\ InBounds(nft_data.used_metadata_ids, id - 1)
                /\ is_metadata_id_used(c, id) = nft_data.used_metadata_ids[id]
        /\ get_available_count(c) =
              IF c = Admin /\ nft_data.exists THEN nft_data.available_count ELSE 0

C27_Witness ==
    /\ nft_data.exists
    /\ is_metadata_id_used(Admin, 0)
    /\ is_metadata_id_used(Admin, 1)
    /\ ~is_metadata_id_used(Admin, 2)
    /\ is_metadata_id_used(Admin, MAX_METADATA_ID + 1)
    /\ is_metadata_id_used("alice", 2)
    /\ get_available_count(Admin) = MAX_METADATA_ID - 1
    /\ get_available_count("alice") = 0

\* The circular order r, r+1, ..., N, 1, ..., r-1 as a sequence.
CircularOrder(r) ==
    [k \in 1..MAX_METADATA_ID |->
        IF r + k - 1 <= MAX_METADATA_ID THEN r + k - 1 ELSE r + k - 1 - MAX_METADATA_ID]

\* The first identifier of that order whose bitmap entry is false; 0 if none.
FirstUnusedFrom(used, r) ==
    LET ks == {k \in 1..MAX_METADATA_ID : ~used[CircularOrder(r)[k]]}
    IN  IF ks = {} THEN 0
        ELSE CircularOrder(r)[CHOOSE k \in ks : \A j \in ks : k <= j]

\* C28: in every reachable pool with available_count > 0 and for every start
\* r in 1..MAX_METADATA_ID, mint_random_nft_secure picks the first identifier
\* of the circular order r, r+1, ..., N, 1, ..., r-1 whose bitmap entry is
\* false, and that is the identifier the allocation returns; the k-th identifier
\* it checks, ((r + k - 1) mod N) + 1, is the k-th of that order and lies in
\* 1..N.
C28_ScanReturnsFirstUnused ==
    \A r \in 1..MAX_METADATA_ID :
        /\ \A k \in 0..(MAX_METADATA_ID - 1) :
              /\ CheckId(r, k) \in 1..MAX_METADATA_ID
              /\ CheckId(r, k) = CircularOrder(r)[k + 1]
        /\ (nft_data.exists /\ nft_data.available_count > 0) =>
              /\ FirstUnusedFrom(nft_data.used_metadata_ids, r) \in Ids
              /\ ScanFrom(nft_data.used_metadata_ids, r, 0)
                    = FirstUnusedFrom(nft_data.used_metadata_ids, r)
              /\ SecureAlloc(Admin, nft_data, r).status = OK
              /\ SecureAlloc(Admin, nft_data, r).id
                    = FirstUnusedFrom(nft_data.used_metadata_ids, r)

\* A secure allocation returned, and in the pool it left a scan from
\* MAX_METADATA_ID has to wrap round to 1 and pass it to find 2.
C28_Witness ==
    /\ last.op = "mint_random_nft_secure" /\ last.status = OK
    /\ nft_data.available_count > 0
    /\ nft_data.used_metadata_ids[MAX_METADATA_ID]
    /\ nft_data.used_metadata_ids[1]
    /\ ~nft_data.used_metadata_ids[2]
    /\ ScanFrom(nft_data.used_metadata_ids, MAX_METADATA_ID, 0) = 2

\* Every bitmap and every available list of the pool's size, reachable or not.
Bitmaps == [1..MAX_METADATA_ID -> BOOLEAN]
AvailableLists == UNION {[1..len -> Ids] : len \in 0..MAX_METADATA_ID}

\* Statuses a call can end with.
NftStatuses ==
    {OK, MISSING_DATA, MISSING_TOKEN_STORE, AlreadyInitialized, PermissionDenied,
     PoolExhausted, TokenNotFound, InvalidRarity, InvalidSkill, InvalidURI,
     TokenDataAlreadyExists, InsufficientTokenBalance, OwnerCannotBurn,
     CreatorCannotBurn, NoTokenBalance}

\* The scan reads at most MAX_METADATA_ID bitmap entries, all of them when it
\* finds nothing, and the removal loop makes at most length(available)
\* iterations, for every start, every bitmap and every available list.
LoopsBoundedEverywhere ==
    /\ \A used \in Bitmaps, r \in 1..MAX_METADATA_ID :
          /\ ScanChecks(used, r, 0) \in 1..MAX_METADATA_ID
          /\ (ScanFrom(used, r, 0) = 0) => ScanChecks(used, r, 0) = MAX_METADATA_ID
    /\ \A v \in AvailableLists, id \in Ids :
          /\ RemovalSteps(v, id, 0) <= Len(v)
          /\ RemovalSteps(v, id, 0) =
                IF FindIndex(v, id, 0) < Len(v) THEN FindIndex(v, id, 0) + 1 ELSE Len(v)

\* C29: every call ends with a result or an abort; the circular scan of
\* mint_random_nft_secure reads at most MAX_METADATA_ID bitmap entries and its
\* removal loop makes at most length(available) iterations, for every start,
\* every bitmap and every available list, and so in every reachable pool.
C29_LoopsBounded ==
    /\ last.status \in NftStatuses
    /\ LoopsBoundedEverywhere
    /\ nft_data.exists =>
          /\ nft_data.used_metadata_ids \in Bitmaps
          /\ nft_data.available_metadata_ids \in AvailableLists
          /\ \A r \in 1..MAX_METADATA_ID :
                ScanChecks(nft_data.used_metadata_ids, r, 0) <= MAX_METADATA_ID
          /\ \A id \in Ids :
                RemovalSteps(nft_data.available_metadata_ids, id, 0)
                    <= Len(nft_data.available_metadata_ids)

\* A secure allocation returned and left a pool in which a scan from 1 reads
\* every bitmap entry before it finds the last identifier, and the removal of
\* the last available identifier walks the whole list.
C29_Witness ==
    /\ last.op = "mint_random_nft_secure" /\ last.status = OK
    /\ ScanChecks(nft_data.used_metadata_ids, 1, 0) = MAX_METADATA_ID
    /\ ScanFrom(nft_data.used_metadata_ids, 1, 0) = MAX_METADATA_ID
    /\ Len(nft_data.available_metadata_ids) = 1
    /\ RemovalSteps(nft_data.available_metadata_ids, MAX_METADATA_ID, 0) = 1

\* Pool records that break the pool's invariant: the counter says some
\* identifiers are available and the bitmap says none is.
CorruptedPools ==
    {[InitialPool(Admin) EXCEPT
         !.used_metadata_ids = [i \in 1..MAX_METADATA_ID |-> TRUE],
         !.available_metadata_ids = v,
         !.available_count = c] :
       v \in AvailableLists, c \in 1..MAX_METADATA_ID}

\* In every reachable pool whose counter is above 0 the scan finds an unused
\* identifier from every start: the assert after the scan cannot fail.
ScanFailureUnreachable ==
    (nft_data.exists /\ nft_data.available_count > 0) =>
        \A r \in 1..MAX_METADATA_ID :
            /\ ScanFrom(nft_data.used_metadata_ids, r, 0) \in Ids
            /\ ~nft_data.used_metadata_ids[ScanFrom(nft_data.used_metadata_ids, r, 0)]
            /\ nft_data \notin CorruptedPools

\* On every such pool and from every start the call aborts with the code of
\* the exhausted pool, returns no identifier and writes nothing.
CorruptedPoolAborts ==
    \A d \in CorruptedPools, r \in 1..MAX_METADATA_ID :
        /\ ScanFrom(d.used_metadata_ids, r, 0) = 0
        /\ SecureAlloc(Admin, d, r) = [status |-> PoolExhausted, id |-> 0, data |-> d]
        /\ SecureAlloc(Admin, [d EXCEPT !.available_count = 0], r).status = PoolExhausted

-----------------------------------------------------------------------------
(* Properties of the fallback allocation, of the event log and of initialize *)

\* C31: in every reachable pool with available_count > 0 and for every hash
\* value, mint_random_nft's index hash mod available_count lies within the
\* available vector, no borrow or pop is out of bounds, the identifier
\* returned is the one at that index, and the swap-with-last removal takes
\* that identifier out and keeps every other one exactly once.
C31_FallbackRemovesChosen ==
    (nft_data.exists /\ nft_data.available_count > 0) =>
        \A random_u64 \in 0..MaxRandomU64 :
            LET avail == nft_data.available_metadata_ids
                i == FallbackIndex(random_u64, nft_data.available_count)
                a == FallbackAlloc(Admin, nft_data, random_u64)
            IN  /\ InBounds(avail, i)
                /\ InBounds(avail, nft_data.available_count - 1)
                /\ a.status = OK
                /\ a.id = At(avail, i)
                /\ InBounds(nft_data.used_metadata_ids, a.id - 1)
                /\ Len(a.data.available_metadata_ids) = Len(avail) - 1
                /\ a.data.available_count = Len(a.data.available_metadata_ids)
                /\ \A j \in Ids :
                      Occurrences(a.data.available_metadata_ids, j) =
                          IF j = a.id THEN 0 ELSE Occurrences(avail, j)

\* mint_random_nft returned identifier 1 from the front of the vector and the
\* last element took its place.
C31_Witness ==
    /\ last.op = "mint_random_nft" /\ last.status = OK /\ last.id = 1
    /\ nft_data.available_metadata_ids = <<MAX_METADATA_ID, 2>>
    /\ nft_data.available_count = 2

\* One step of a replay of the ledger's events over the balances it has
\* reconstructed so far.
BalanceReplay(balances, event) ==
    IF event.type \in {"MintEvent", "PlayerLoginReward"}
    THEN [balances EXCEPT ![event.account] = @ + event.amount]
    ELSE IF event.type = "BurnEvent"
    THEN [balances EXCEPT ![event.account] = @ - event.amount]
    ELSE balances

\* One step of a replay of the registry's events over the holders it has
\* reconstructed so far: a MintEvent and a TransferEvent name the new holder,
\* a BurnEvent leaves the token without one.
OwnerReplay(owners, event) ==
    IF event.type \in {"MintEvent", "TransferEvent"}
    THEN [owners EXCEPT ![event.token_id] = event.to]
    ELSE IF event.type = "BurnEvent" THEN [owners EXCEPT ![event.token_id] = NoOwner]
    ELSE owners

\* C32: the events carry enough to reconstruct balances and owners: a replay
\* of the emitted events from the initial state gives the current balance of
\* every account and the current holder of every token.  Stated step by
\* step: replaying what a call emitted over the balances and holders before
\* the call gives those after it.
C32_EventsReplayState ==
    [][/\ BalanceReplay(coa_balance, coa_emitted') = coa_balance'
       /\ OwnerReplay(token_owner, emitted') = token_owner']_vars

\* What of C32 the code does keep: the registry's events replay to the
\* holders, and the ledger's events replay to the total supply and to the
\* balances across every call but transfer.
C32_EventsReplayButTransfers ==
    [][/\ OwnerReplay(token_owner, emitted') = token_owner'
       /\ SumOver(BalanceReplay(coa_balance, coa_emitted'), CoaAccounts)
             = SumOver(coa_balance', CoaAccounts)
       /\ (coa_last'.op # "transfer" \/ coa_last'.status # OK \/ coa_last'.amount = 0
              \/ coa_last'.caller = coa_last'.account) =>
             BalanceReplay(coa_balance, coa_emitted') = coa_balance']_vars

\* The pool a first initialize leaves, for a capacity of n: the counter n,
\* the available vector 1..n in order, every bitmap entry false.
FreshVectors(n) ==
    [available_ids |-> [i \in 1..n |-> i], used_ids |-> [i \in 1..n |-> FALSE]]

\* The loop of initialize builds exactly those vectors, for every capacity
\* up to twice the one the model runs with.
FillLoopBuildsFreshPool ==
    \A n \in 0..(2 * MAX_METADATA_ID) : FillLoop(1, n, <<>>, <<>>) = FreshVectors(n)

\* C33: each initialize succeeds at most once for the admin.  The first pool
\* initialize leaves available_count = N, the available vector 1..N each
\* once and every bitmap entry false (N being MAX_METADATA_ID, 1200 in the
\* deployed module); an initialize of a pool or of a ledger
\* that exists aborts and leaves pool, registry, balances and supply as they
\* were; what was initialized stays so.
C33_InitializeOnce ==
    /\ [](FillLoopBuildsFreshPool)
    /\ [][/\ Initialize =>
              IF nft_data.exists
              THEN /\ last'.status = AlreadyInitialized
                   /\ UNCHANGED <<nft_data, token_data, token_owner, direct_transfer>>
                   /\ UNCHANGED <<coaVars, appVars>>
              ELSE /\ last'.status = OK
                   /\ nft_data'.exists /\ nft_data'.admin = Admin
                   /\ nft_data'.available_count = MAX_METADATA_ID
                   /\ nft_data'.available_metadata_ids
                         = FreshVectors(MAX_METADATA_ID).available_ids
                   /\ nft_data'.used_metadata_ids = FreshVectors(MAX_METADATA_ID).used_ids
          /\ CoaInitialize =>
              IF coa_exists
              THEN /\ coa_last'.status = ObjectExists
                   /\ UNCHANGED <<coa_exists, coa_store, coa_balance, coa_supply>>
                   /\ UNCHANGED <<nftVars, appVars>>
              ELSE coa_last'.status = OK /\ coa_exists'
          /\ nft_data.exists => nft_data'.exists
          /\ coa_exists => coa_exists']_vars

\* A second ledger initialize was refused after a mint, in a state where a
\* second pool initialize had been refused after an allocation.
C33_Witness ==
    /\ last.op = "initialize" /\ last.status = AlreadyInitialized
    /\ nft_data.available_count < MAX_METADATA_ID
    /\ coa_last.op = "initialize" /\ coa_last.status = ObjectExists
    /\ balance(Admin) = 100

-----------------------------------------------------------------------------
(* Properties of the derived attributes, of the frame and of the ledger's debits *)

\* Every identifier of the deployed pool, 1..1200.
DeployedIds == 1..DEPLOYED_MAX_METADATA_ID

\* What mint_nft_with_metadata_id derives passes the three validations of
\* mint_nft for every identifier of the deployed pool, and no two of them get
\* the same token name.
DerivedMintsValid ==
    /\ \A id \in DeployedIds :
          /\ PoolTokenRarity(id) \in 1..MAX_RARITY
          /\ PoolTokenSkill(id) \in 1..MAX_SKILL
          /\ validate_ipfs_uri(PoolTokenUri(id))
    /\ Cardinality({PoolTokenName(id) : id \in DeployedIds}) = DEPLOYED_MAX_METADATA_ID

\* The status of the registry mint that follows allocation a for recipient to.
AllocMintStatus(a, to) ==
    MintNftStatus(Admin, to, PoolTokenName(a.id), PoolTokenUri(a.id),
                  PoolTokenRarity(a.id), PoolTokenSkill(a.id))

\* C34: for every identifier the pool can allocate, the rarity, skill, uri
\* and name mint_nft_with_metadata_id derives pass mint_nft's validation and
\* distinct identifiers get distinct names; so in no reachable state does an
\* allocation by the admin, of either strategy, abort with E_INVALID_RARITY,
\* E_INVALID_SKILL or E_INVALID_URI, or because the name is that of a token an
\* earlier allocation created.
C34_DerivedAttributesValid ==
    /\ DerivedMintsValid
    /\ \A i \in Ids : created[i] >= 1 => nft_data.used_metadata_ids[i]
    /\ \A to \in Accounts, r \in 0..MaxRandomU64 :
          \A a \in {FallbackAlloc(Admin, nft_data, r)}
                    \cup {SecureAlloc(Admin, nft_data, s) : s \in 1..MAX_METADATA_ID} :
              a.status = OK =>
                  /\ AllocMintStatus(a, to) \notin {InvalidRarity, InvalidSkill, InvalidURI}
                  /\ AllocMintStatus(a, to) = TokenDataAlreadyExists => created[a.id] = 0

\* Every identifier of the pool was allocated, and each token carries the
\* name and the attributes derived from its identifier.
C34_Witness ==
    /\ last.op \in AllocOps /\ last.status = OK
    /\ \A i \in Ids :
          /\ created[i] = 1
          /\ token_data[PoolTokenName(i)] =
                [exists |-> TRUE, rarity |-> PoolTokenRarity(i), skill |-> PoolTokenSkill(i)]

FrameOps ==
    {"mint_nft", "mint_from_metadata_id", "mint_from_ipfs_metadata", "mint_from_bridge",
     "transfer_nft", "burn_nft", "admin_burn_nft"}

\* C35: mint_nft, mint_from_metadata_id, mint_from_ipfs_metadata,
\* mint_from_bridge, transfer_nft, burn_nft and admin_burn_nft leave the pool
\* (available_count, available vector, used bitmap) as it was, whether they
\* return or abort; an existing pool changes only in a mint_random_nft_secure
\* or mint_random_nft call that returns.
C35_PoolFrame ==
    [][/\ (last'.op \in FrameOps) => nft_data' = nft_data
       /\ (nft_data.exists /\ nft_data' # nft_data) =>
             (last'.op \in AllocOps /\ last'.status = OK)]_vars

\* mint_from_metadata_id returned for identifier 1 while the pool, from which
\* another identifier was allocated, still has 1 available and unused.
C35_Witness ==
    /\ last.op = "mint_from_metadata_id" /\ last.status = OK /\ last.id = 1
    /\ nft_data.available_count = MAX_METADATA_ID - 1
    /\ ~nft_data.used_metadata_ids[1]
    /\ Occurrences(nft_data.available_metadata_ids, 1) = 1
    /\ \E n \in TokenNames : token_owner[n] = "alice"

\* C36: the balance of an account goes down only in a step the account itself
\* signed: a transfer that returned with the account as `from`, or a burn that
\* returned, signed by the admin and taken from the admin's own balance.  No
\* call signed by another account, the admin included, lowers it.
C36_DebitOnlyBySigner ==
    [][\A a \in CoaAccounts :
          coa_balance'[a] < coa_balance[a] =>
              /\ coa_last'.caller = a
              /\ coa_last'.status = OK
              /\ coa_last'.amount = coa_balance[a] - coa_balance'[a]
              /\ \/ coa_last'.op = "transfer" /\ coa_last'.account # a
                 \/ coa_last'.op = "burn" /\ a = Admin]_vars

\* alice transferred part of her balance to the admin, who holds units too;
\* alice's balance went down and an admin balance is there to be debited.
C36_Witness ==
    /\ coa_last.op = "transfer" /\ coa_last.caller = "alice" /\ coa_last.status = OK
    /\ coa_last.account = Admin
    /\ coa_balance["alice"] > 0
    /\ coa_balance[Admin] > coa_last.amount

\* C37: the route answers 'Player rewarded with 650 CoA tokens successfully'
\* only for a request whose transaction raised the player's balance by 650,
\* and answers 400 'Player has already received CoA tokens' for every player
\* whose balance was not zero when eligibility was checked, also with two
\* requests in flight and with a failed balance read.
C37_RewardedMeansCredited ==
    \A r \in ReqIds :
        requests[r].pc = "done" =>
            /\ requests[r].response = Rewarded =>
                  requests[r].credited = INITIAL_PLAYER_AMOUNT
            /\ (requests[r].player # NoOwner /\ requests[r].held > 0) =>
                  requests[r].response = AlreadyReceived

\* A connect() call settles: it returns at once without the extension, or
\* its last step runs.
ConnectSettles ==
    \/ ConnectCall /\ ~petra.installed
    \/ hook_pc["connect"] # "idle" /\ hook_pc'["connect"] = "idle"

\* C38: whenever a connect() call of useAptosWallet has settled (wallet.connect
\* resolved with any value or rejected, or the wallet was missing) the state
\* has isConnecting = false.
C38_ConnectSettlesNotConnecting ==
    [][ConnectSettles => ~walletState'.isConnecting]_vars

\* C39: after a disconnect() completed successfully, and until connect() is
\* called again, the state is the disconnected one (isConnected false, no
\* address, balance '0', coaBalance 0), whatever calls were in flight when
\* disconnect was called.
C39_StaysDisconnected ==
    since_disconnect = "disconnected" =>
        /\ ~walletState.isConnected
        /\ walletState.address = NoAddress
        /\ walletState.balance = "0"
        /\ walletState.coaBalance = 0

====
